---- MODULE Spec2Model ----
(***************************************************************************)
(* Build-job descriptor compiler / validator of webworks-claude-skills:    *)
(* create-job.py (both plugin copies), parse-job.py and validate-job.py.   *)
(*                                                                         *)
(* Strings are sequences of chunks (one chunk is one character, or one     *)
(* literal of the source such as "True").  A dict and an XML attribute     *)
(* list are read with Get / Attr, which take the default of the source's   *)
(* .get(key, default).  An XML element is [tag, attrs, children] with      *)
(* attrs a sequence of <<name, value>> pairs in insertion order.           *)
(***************************************************************************)
EXTENDS Integers, Sequences, FiniteSets, TLC

VARIABLES
    cmd,                \* the command that is running
    pc,                 \* position inside the command
    config,             \* create-job: the structured configuration (a dict)
    errors,             \* create-job: the list validate_config returned
    xml_content,        \* create-job: the text generate_job_xml returned
    job_info,           \* parse-job: what extract_job_info returned
    minidom_escapes_ws, \* whether the interpreter's minidom escapes \t in attributes
    plugin,             \* create-job: the plugin whose copy of the script runs
    args,               \* the command line, and the files it names
    output_path,        \* create-job: the path the file is written to
    content,            \* create-job: the text being written
    temp_path,          \* write_file_atomic: the temporary file
    fs,                 \* the files on disk: path |-> the blocks written
    fs_before,          \* the files on disk when the command started
    log,                \* the messages of log_error
    calls,              \* the functions main has called, in order
    job_root,           \* validate-job: main's root, the root element of the job file
    job_dir,            \* validate-job: the files beside the job file: path |-> content
    results,            \* validate-job: the ValidationResults so far
    all_passed,         \* validate-job: main's all_passed
    stdout,             \* the readers: the data the command has printed, in order
    exit_code           \* the exit status, None while running

vars == <<cmd, pc, config, errors, xml_content, job_info, minidom_escapes_ws,
          plugin, args, output_path, content, temp_path, fs, fs_before, log, calls, exit_code,
          job_root, job_dir, results, all_passed, stdout>>

\* the variables validate-job owns
vj_vars == <<job_root, job_dir, results, all_passed>>

\* the variables the commands that write files own
cj_vars == <<plugin, args, output_path, content, temp_path, fs, fs_before, log, calls, exit_code>>

(***************************************************************************)
(* Strings                                                                 *)
(***************************************************************************)
None == "None"

\* None, where a dict or a parsed document is expected
NoRecord == [none |-> TRUE]

\* the exit status while the command runs
Running == -1

EmptyStr == <<>>
TrueStr == <<"True">>
FalseStr == <<"False">>
TAB == "\t"
NL == "\n"

\* the characters str.strip() removes
Whitespace == {" ", TAB, NL}

\* not s.strip()
IsBlank(s) == \A i \in 1..Len(s) : s[i] \in Whitespace

\* d.get(k, default) of a dict
Get(d, k, default) == IF k \in DOMAIN d THEN d[k] ELSE default

(***************************************************************************)
(* XML elements (xml.etree.ElementTree)                                    *)
(***************************************************************************)
Elem(tag, attrs, children) == [tag |-> tag, attrs |-> attrs, children |-> children]

\* element.get(name, default)
Attr(e, name, default) ==
    LET at == {i \in 1..Len(e.attrs) : e.attrs[i][1] = name}
    IN  IF at = {} THEN default ELSE e.attrs[CHOOSE i \in at : TRUE][2]

\* element.findall(tag): the direct children with that tag, in document order
FindAll(e, tag) == SelectSeq(e.children, LAMBDA c : c.tag = tag)

\* element.find(tag) is not None
HasChild(e, tag) == FindAll(e, tag) # <<>>

\* element.find(tag): the first direct child with that tag
Find(e, tag) == FindAll(e, tag)[1]

\* the text of an attribute value as xml.etree.ElementTree.tostring writes it
EscapeAttribET(s) ==
    [i \in 1..Len(s) |->
        CASE s[i] = "&" -> "&amp;"
          [] s[i] = TAB -> "&#09;"
          [] s[i] = NL -> "&#10;"
          [] OTHER -> s[i]]

\* the text of an attribute value as minidom's toprettyxml writes it
MinidomWriteData(s, escapes_ws) ==
    [i \in 1..Len(s) |->
        CASE s[i] = "&" -> "&amp;"
          [] s[i] = TAB /\ escapes_ws -> "&#9;"
          [] s[i] = NL /\ escapes_ws -> "&#10;"
          [] OTHER -> s[i]]

\* the attribute value an XML parser (expat) reads from that text: references
\* are resolved, a literal tab or newline is normalised to a space
ExpatAttrValue(t) ==
    [i \in 1..Len(t) |->
        CASE t[i] = "&amp;" -> "&"
          [] t[i] \in {"&#09;", "&#9;"} -> TAB
          [] t[i] = "&#10;" -> NL
          [] t[i] \in {TAB, NL} -> " "
          [] OTHER -> t[i]]

\* the attribute value v after one pass: written by tostring, read by a parser,
\* or written by toprettyxml
AttrPass(how, v, escapes_ws) ==
    CASE how = "tostring" -> EscapeAttribET(v)
      [] how = "parse" -> ExpatAttrValue(v)
      [] how = "toprettyxml" -> MinidomWriteData(v, escapes_ws)

RECURSIVE MapAttrs(_, _, _)
\* the tree e after one pass over every attribute value
MapAttrs(how, escapes_ws, e) ==
    Elem(e.tag,
         [i \in 1..Len(e.attrs) |-> <<e.attrs[i][1], AttrPass(how, e.attrs[i][2], escapes_ws)>>],
         [i \in 1..Len(e.children) |-> MapAttrs(how, escapes_ws, e.children[i])])

\* tostring(job, encoding='unicode')
tostring(e) == MapAttrs("tostring", TRUE, e)

\* minidom.parseString(text) and ET.parse(file): the element tree of a text
ParseXml(text) == MapAttrs("parse", TRUE, text)

\* dom.toprettyxml(indent='  ')
toprettyxml(dom, escapes_ws) == MapAttrs("toprettyxml", escapes_ws, dom)

(***************************************************************************)
(* create-job.py: validate_config and generate_job_xml                     *)
(***************************************************************************)
\* the errors of the targets, target by target: name first, then format
TargetErrors(targets) ==
    LET RECURSIVE walk(_)
        walk(i) ==
            IF i > Len(targets) THEN <<>>
            ELSE (IF IsBlank(Get(targets[i], "name", EmptyStr))
                    THEN << <<"Target ", ToString(i), " name cannot be empty">> >> ELSE <<>>)
              \o (IF IsBlank(Get(targets[i], "format", EmptyStr))
                    THEN << <<"Target ", ToString(i), " format cannot be empty">> >> ELSE <<>>)
              \o walk(i + 1)
    IN  walk(1)

GroupErrors(groups) ==
    LET RECURSIVE walk(_)
        walk(i) ==
            IF i > Len(groups) THEN <<>>
            ELSE (IF IsBlank(Get(groups[i], "name", EmptyStr))
                    THEN << <<"Group ", ToString(i), " name cannot be empty">> >> ELSE <<>>)
              \o walk(i + 1)
    IN  walk(1)

\* validate_config without the check of the target list
NoTargetsError_Unchecked(c) == <<>>

\* if not config.get('targets'): errors.append(...)
NoTargetsError(c) ==
    IF Get(c, "targets", <<>>) = <<>>
      THEN << <<"At least one target is required">> >> ELSE <<>>

\* validate_config(config): the list of every violation, in the order found
validate_config(c) ==
       (IF IsBlank(Get(c, "name", EmptyStr))
          THEN << <<"Job name cannot be empty">> >> ELSE <<>>)
    \o (IF IsBlank(Get(c, "stationery", EmptyStr))
          THEN << <<"Stationery path cannot be empty">> >> ELSE <<>>)
    \o NoTargetsError(c)
    \o TargetErrors(Get(c, "targets", <<>>))
    \o GroupErrors(Get(c, "groups", <<>>))

\* 'True' if value else 'False'
BoolStr(b) == IF b THEN TrueStr ELSE FalseStr

ConditionsElem(conditions) ==
    Elem("Conditions",
         << <<"Expression", EmptyStr>>, <<"UseClassicConditions", FalseStr>>,
            <<"UseDocumentExpression", TrueStr>> >>,
         [i \in 1..Len(conditions) |->
            Elem("Condition",
                 << <<"name", Get(conditions[i], "name", EmptyStr)>>,
                    <<"value", Get(conditions[i], "value", TrueStr)>>,
                    <<"Passthrough", FalseStr>>,
                    <<"UseDocumentValue", FalseStr>> >>, <<>>)])

VariablesElem(variables) ==
    Elem("Variables", <<>>,
         [i \in 1..Len(variables) |->
            Elem("Variable",
                 << <<"name", Get(variables[i], "name", EmptyStr)>>,
                    <<"value", Get(variables[i], "value", EmptyStr)>>,
                    <<"UseDocumentValue", FalseStr>> >>, <<>>)])

SettingsElem(settings) ==
    Elem("Settings", <<>>,
         [i \in 1..Len(settings) |->
            Elem("Setting",
                 << <<"name", Get(settings[i], "name", EmptyStr)>>,
                    <<"value", Get(settings[i], "value", EmptyStr)>> >>, <<>>)])

\* the child blocks in another order: the settings before the variables
TargetBlocks_SettingsFirst(t) ==
    LET conditions == Get(t, "conditions", <<>>)
        variables == Get(t, "variables", <<>>)
        settings == Get(t, "settings", <<>>)
    IN     (IF conditions # <<>> THEN <<ConditionsElem(conditions)>> ELSE <<>>)
        \o (IF settings # <<>> THEN <<SettingsElem(settings)>> ELSE <<>>)
        \o (IF variables # <<>> THEN <<VariablesElem(variables)>> ELSE <<>>)

\* the child blocks of a target: each only when its list is non-empty
TargetBlocks(t) ==
    LET conditions == Get(t, "conditions", <<>>)
        variables == Get(t, "variables", <<>>)
        settings == Get(t, "settings", <<>>)
    IN     (IF conditions # <<>> THEN <<ConditionsElem(conditions)>> ELSE <<>>)
        \o (IF variables # <<>> THEN <<VariablesElem(variables)>> ELSE <<>>)
        \o (IF settings # <<>> THEN <<SettingsElem(settings)>> ELSE <<>>)

TargetElem(t) ==
    Elem("Target",
         << <<"name", Get(t, "name", EmptyStr)>>,
            <<"format", Get(t, "format", EmptyStr)>>,
            <<"formatType", Get(t, "formatType", <<"Application">>)>>,
            <<"build", BoolStr(Get(t, "build", TRUE))>>,
            <<"deployTarget", Get(t, "deployTarget", EmptyStr)>>,
            <<"cleanOutput", BoolStr(Get(t, "cleanOutput", FALSE))>> >>,
         TargetBlocks(t))

GroupElem(g) ==
    LET documents == Get(g, "documents", <<>>)
    IN  Elem("Group", << <<"name", Get(g, "name", EmptyStr)>> >>,
             [i \in 1..Len(documents) |->
                Elem("Document", << <<"path", documents[i]>> >>, <<>>)])

\* the element tree generate_job_xml builds
JobElem(c) ==
    LET groups == Get(c, "groups", <<>>)
        targets == Get(c, "targets", <<>>)
    IN  Elem("Job",
             << <<"name", Get(c, "name", <<"untitled">>)>>, <<"version", <<"1.0">> >> >>,
             << Elem("Project", << <<"path", Get(c, "stationery", EmptyStr)>> >>, <<>>),
                Elem("Files", <<>>, [i \in 1..Len(groups) |-> GroupElem(groups[i])]),
                Elem("Targets", <<>>, [i \in 1..Len(targets) |-> TargetElem(targets[i])]) >>)

XmlDeclaration == "<?xml version=\"1.0\" encoding=\"utf-8\"?>"

\* generate_job_xml(config): the tree is written by tostring, read by minidom,
\* written again by toprettyxml, and the first line is replaced
generate_job_xml(c, escapes_ws) ==
    [declaration |-> XmlDeclaration,
     doc |-> toprettyxml(ParseXml(tostring(JobElem(c))), escapes_ws)]

(***************************************************************************)
(* parse-job.py: extract_job_info                                          *)
(***************************************************************************)
\* the name/value dicts of the children `tag` of the block `block` of a target
NameValues(target_elem, block, tag) ==
    IF HasChild(target_elem, block)
      THEN LET es == FindAll(Find(target_elem, block), tag)
           IN  [i \in 1..Len(es) |->
                  [name |-> Attr(es[i], "name", EmptyStr),
                   value |-> Attr(es[i], "value", EmptyStr)]]
      ELSE <<>>

TargetInfo(target_elem) ==
    [name |-> Attr(target_elem, "name", EmptyStr),
     format |-> Attr(target_elem, "format", EmptyStr),
     formatType |-> Attr(target_elem, "formatType", <<"Application">>),
     build |-> (Attr(target_elem, "build", TrueStr) = TrueStr),
     cleanOutput |-> (Attr(target_elem, "cleanOutput", FalseStr) = TrueStr),
     deployTarget |-> Attr(target_elem, "deployTarget", EmptyStr),
     conditions |-> NameValues(target_elem, "Conditions", "Condition"),
     variables |-> NameValues(target_elem, "Variables", "Variable"),
     settings |-> NameValues(target_elem, "Settings", "Setting")]

GroupInfo(group_elem) ==
    LET docs == FindAll(group_elem, "Document")
    IN  [name |-> Attr(group_elem, "name", EmptyStr),
         documents |-> [i \in 1..Len(docs) |-> Attr(docs[i], "path", EmptyStr)]]

\* extract_job_info(root, job_path); dir is the set of paths that exist
\* relative to the directory of the job file
extract_job_info(root, dir) ==
    LET stationery_path ==
            IF HasChild(root, "Project")
              THEN Attr(Find(root, "Project"), "path", EmptyStr) ELSE EmptyStr
        group_elems ==
            IF HasChild(root, "Files") THEN FindAll(Find(root, "Files"), "Group") ELSE <<>>
        target_elems ==
            IF HasChild(root, "Targets")
              THEN FindAll(Find(root, "Targets"), "Target") ELSE <<>>
    IN  [name |-> Attr(root, "name", <<"Unknown">>),
         version |-> Attr(root, "version", <<"1.0">>),
         stationery |-> stationery_path,
         stationeryExists |-> (stationery_path # EmptyStr /\ stationery_path \in dir),
         groups |-> [i \in 1..Len(group_elems) |-> GroupInfo(group_elems[i])],
         targets |-> [i \in 1..Len(target_elems) |-> TargetInfo(target_elems[i])]]

(***************************************************************************)
(* The structured configurations the commands are run on                   *)
(***************************************************************************)
MaxGroups == 2
MaxDocs == 2
MaxTargets == 2
MaxSub == 2

\* the sequences over S of length at most n
SeqsUpTo(S, n) == UNION {[1..k -> S] : k \in 0..n}

\* the sequences of length 1..n with one element of S at one place and `fill` elsewhere
OneAmong(S, fill, n) ==
    {[i \in 1..k |-> IF i = at THEN x ELSE fill] : <<k, at>> \in (1..n) \X (1..n), x \in S}
        \ {<<>>}

DocVals == {<<"a">>, <<"b", TAB, "c">>}
NameVals == {<<"n">>, <<"n", TAB>>, <<"&">>, <<" ">>}
NameValueVals == {[name |-> <<"k">>, value |-> <<"v">>], [name |-> <<"&">>, value |-> <<TAB>>]}

GroupVals ==
    {[name |-> <<"g">>, documents |-> d] : d \in SeqsUpTo(DocVals, MaxDocs)}
    \cup {[name |-> <<" ">>, documents |-> <<>>], [name |-> <<"g">>], [documents |-> <<>>]}

Target0 == [name |-> <<"t0">>, format |-> <<"F0">>]

NameValues1 == <<[name |-> <<"k">>, value |-> <<"v">>]>>

TargetVals ==
    \* the flags
    {[name |-> <<"t">>, format |-> <<"F">>, formatType |-> <<"Help">>,
      build |-> b, cleanOutput |-> c, deployTarget |-> d] :
        b \in BOOLEAN, c \in BOOLEAN, d \in {EmptyStr, <<"d", TAB>>}}
    \* the names
    \cup {[name |-> n, format |-> f] : n \in NameVals, f \in {<<"F">>, EmptyStr}}
    \cup {[format |-> <<"F">>], [name |-> <<"t">>]}
    \* the lists of conditions, variables and settings
    \cup {[name |-> <<"t">>, format |-> <<"F">>,
           conditions |-> l, variables |-> v, settings |-> s] :
            l \in SeqsUpTo(NameValueVals, MaxSub), v \in {<<>>, NameValues1},
            s \in {<<>>, NameValues1}}
    \cup {[name |-> <<"t">>, format |-> <<"F">>,
           conditions |-> c, variables |-> l, settings |-> s] :
            l \in SeqsUpTo(NameValueVals, MaxSub), c \in {<<>>, NameValues1},
            s \in {<<>>, NameValues1}}
    \cup {[name |-> <<"t">>, format |-> <<"F">>,
           conditions |-> c, variables |-> v, settings |-> l] :
            l \in SeqsUpTo(NameValueVals, MaxSub), c \in {<<>>, NameValues1},
            v \in {<<>>, NameValues1}}

BaseConfig ==
    [name |-> <<"job">>, stationery |-> <<"s.wxsp">>,
     groups |-> <<[name |-> <<"g">>, documents |-> << <<"a">> >>]>>,
     targets |-> <<Target0>>]

\* an incomplete configuration with a violation of every kind
AllWrong ==
    [name |-> <<" ">>, stationery |-> EmptyStr, groups |-> <<[name |-> <<" ">>]>>,
     targets |-> <<[name |-> EmptyStr, format |-> <<" ">>], Target0, [name |-> <<"t">>]>>]

TopConfigs ==
    {[BaseConfig EXCEPT !.name = n, !.stationery = s] :
        n \in NameVals \cup {EmptyStr}, s \in {<<"s.wxsp">>, <<"s", TAB>>, EmptyStr}}
    \cup {[name |-> <<"job">>, stationery |-> <<"s.wxsp">>],
          [stationery |-> <<"s.wxsp">>, groups |-> <<>>, targets |-> <<Target0>>],
          [name |-> <<"job">>, targets |-> <<Target0>>],
          [name |-> <<"job">>, stationery |-> <<"s.wxsp">>, targets |-> <<Target0>>],
          AllWrong}

Configs ==
    TopConfigs
    \cup {[BaseConfig EXCEPT !.groups = g] : g \in SeqsUpTo(GroupVals, MaxGroups)}
    \cup {[BaseConfig EXCEPT !.targets = t] :
            t \in {<<>>} \cup OneAmong(TargetVals, Target0, MaxTargets)}

(***************************************************************************)
(* Serialize, then read back: validate_config, generate_job_xml, then      *)
(* ET.parse and extract_job_info on the text produced                      *)
(***************************************************************************)
InitRT ==
    /\ cmd = "roundtrip"
    /\ pc = "start"
    /\ config \in Configs
    /\ minidom_escapes_ws \in BOOLEAN
    /\ errors = <<>>
    /\ xml_content = NoRecord
    /\ job_info = NoRecord
    /\ plugin = None /\ args = NoRecord /\ output_path = <<>> /\ content = <<>>
    /\ temp_path = <<>> /\ fs = <<>> /\ fs_before = <<>> /\ log = <<>>
    /\ calls = <<>>
    /\ exit_code = Running
    /\ job_root = NoRecord /\ job_dir = <<>> /\ results = <<>> /\ all_passed = TRUE /\ stdout = <<>>

\* errors = validate_config(config); if errors: ... return EXIT_VALIDATION_ERROR
RTValidate ==
    /\ cmd = "roundtrip" /\ pc = "start"
    /\ errors' = validate_config(config)
    /\ pc' = IF errors' # <<>> THEN "rejected" ELSE "validated"
    /\ UNCHANGED <<stdout, vj_vars, cmd, config, xml_content, job_info, minidom_escapes_ws, cj_vars>>

\* xml_content = generate_job_xml(config)
RTGenerate ==
    /\ cmd = "roundtrip" /\ pc = "validated"
    /\ xml_content' = generate_job_xml(config, minidom_escapes_ws)
    /\ pc' = "generated"
    /\ UNCHANGED <<stdout, vj_vars, cmd, config, errors, job_info, minidom_escapes_ws, cj_vars>>

\* root = parse_job_xml(job_file); job_info = extract_job_info(root, job_file)
RTRead ==
    /\ cmd = "roundtrip" /\ pc = "generated"
    /\ job_info' = extract_job_info(ParseXml(xml_content.doc), {})
    /\ pc' = "read"
    /\ UNCHANGED <<stdout, vj_vars, cmd, config, errors, xml_content, minidom_escapes_ws, cj_vars>>

NextRT == RTValidate \/ RTGenerate \/ RTRead

SpecRT == InitRT /\ [][NextRT]_vars

(***************************************************************************)
(* Paths and files                                                         *)
(***************************************************************************)
RECURSIVE SplitPath(_, _, _)
\* the segments of the path string s between its separators, from place i on
SplitPath(s, i, seg) ==
    LET done == IF seg = <<>> \/ seg = <<".">> THEN <<>> ELSE <<seg>>
    IN  IF i > Len(s) THEN done
        ELSE IF s[i] = "/" THEN done \o SplitPath(s, i + 1, <<>>)
        ELSE SplitPath(s, i + 1, Append(seg, s[i]))

IsAbsolute(s) == s # <<>> /\ s[1] = "/"

RECURSIVE Normalize(_, _)
\* the segments segs applied to the directory at, ".." going to the parent
Normalize(at, segs) ==
    IF segs = <<>> THEN at
    ELSE IF Head(segs) = <<"..">>
      THEN Normalize(IF at = <<>> THEN <<>> ELSE SubSeq(at, 1, Len(at) - 1), Tail(segs))
    ELSE Normalize(Append(at, Head(segs)), Tail(segs))

\* (base_dir / user_path).resolve()
Resolve(base_dir, user_path) ==
    Normalize(IF IsAbsolute(user_path) THEN <<>> ELSE base_dir, SplitPath(user_path, 1, <<>>))

\* full_path.relative_to(base_dir) does not raise
IsRelativeTo(full_path, base_dir) ==
    Len(full_path) >= Len(base_dir) /\ SubSeq(full_path, 1, Len(base_dir)) = base_dir

\* validate_safe_path(base_dir, user_path) returns, and does not raise ValueError
validate_safe_path(base_dir, user_path) ==
    IsRelativeTo(Resolve(base_dir, user_path), base_dir)

\* Path.cwd(), and the directories that exist
Cwd == << <<"w">> >>
Dirs == {<<>>, Cwd, Cwd \o << <<"sub">> >>, << <<"etc">> >>}

Parent(path) == SubSeq(path, 1, Len(path) - 1)
Name(path) == path[Len(path)]

\* the characters re.sub(r'[^\w\-.]', '_', name) replaces
NotFilenameChars == {" ", TAB, "&", "/", "\\"}

RECURSIVE LStrip(_, _)
\* s.lstrip(chars)
LStrip(s, chars) ==
    IF s # <<>> /\ Head(s) \in chars THEN LStrip(Tail(s), chars) ELSE s

\* a sanitizer that keeps the leading dots and dashes
sanitize_filename_Unstripped(name) ==
    LET replaced == [i \in 1..Len(name) |->
                        IF name[i] \in NotFilenameChars THEN "_" ELSE name[i]]
    IN  IF replaced # <<>> THEN replaced ELSE <<"job">>

\* sanitize_filename(name)
sanitize_filename(name) ==
    LET replaced == [i \in 1..Len(name) |->
                        IF name[i] \in NotFilenameChars THEN "_" ELSE name[i]]
        stripped == LStrip(replaced, {".", "-", ".."})
    IN  IF stripped # <<>> THEN stripped ELSE <<"job">>

\* a text reaches the disk in blocks: the blocks of the job file, of the exported
\* configuration, and of a file that was there before
Blocks(text) == <<[part |-> 1, text |-> text], [part |-> 2, text |-> text]>>
XmlText(xml) == Blocks(xml)
JsonText(c) == Blocks([json |-> c])
PriorText == Blocks([prior |-> TRUE])

\* mkstemp(dir=dir_path, prefix='.<name>.tmp', suffix='.tmp')
TempPath(path) == Append(Parent(path), <<".">> \o Name(path) \o <<".tmp", "XXXXXXXX", ".tmp">>)

\* the file at path with the given blocks
WriteFile(files, path, blocks) == [q \in DOMAIN files \cup {path} |-> IF q = path THEN blocks ELSE files[q]]
RemoveFile(files, path) == [q \in DOMAIN files \ {path} |-> files[q]]

(***************************************************************************)
(* create-job.py: main, in the copy of each plugin                         *)
(***************************************************************************)
WW == "webworks-claude-skills"
EA == "epublisher-automation"

EXIT_SUCCESS == 0
EXIT_FILE_ERROR == 1
EXIT_ARG_ERROR == 2
EXIT_VALIDATION_ERROR == 3
EXIT_CANCELLED == 4
\* the exit status of the interpreter after an uncaught exception
EXIT_TRACEBACK == 1

OutputVals ==
    {EmptyStr, <<"out.waj">>, <<"..", "/", "out.waj">>, <<"sub", "/", "..", "/", "out.waj">>,
     <<"sub", "/", "..", "/", "..", "/", "out.waj">>,
     <<"/", "etc", "/", "out.waj">>, <<"/", "w", "/", "out.waj">>,
     <<"nodir", "/", "out.waj">>}

\* the configuration files create-job is run on
ConfigFiles ==
    {[status |-> "missing"], [status |-> "invalid json"]}
    \cup {[status |-> "ok", data |-> c] :
            c \in TopConfigs
                \cup {[BaseConfig EXCEPT !.name = <<"..", "/", "x">>],
                      [BaseConfig EXCEPT !.targets = <<>>],
                      [BaseConfig EXCEPT !.targets =
                            <<Target0, [name |-> <<"t">>, format |-> <<" ">>]>>]}}

\* the target interactive_collect_targets builds from the selected format
InteractiveTarget(fmt) ==
    [name |-> fmt.targetName, format |-> fmt.name, formatType |-> fmt.type,
     build |-> TRUE, cleanOutput |-> FALSE, deployTarget |-> EmptyStr,
     conditions |-> <<>>, variables |-> <<>>, settings |-> <<>>]

\* the formats of the parsed stationery: attributes a Format element lacks read as ''
StationeryFormats ==
    {[name |-> <<"F">>, targetName |-> <<"t">>, type |-> <<"Help">>],
     [name |-> <<"F">>, targetName |-> EmptyStr, type |-> EmptyStr]}

\* the configurations interactive_mode can return: the job name is prompted with
\* the default "job" (and sanitized in the webworks-claude-skills copy), the
\* stationery path with the default of the command line
InteractiveConfigs(copy) ==
    {[name |-> IF copy = WW THEN sanitize_filename(n) ELSE n,
      stationery |-> <<"s.wxsp">>, groups |-> g, targets |-> <<InteractiveTarget(f)>>] :
        n \in {<<"job">>, <<"&">>, <<"..", "/", "x">>},
        g \in {<<>>, BaseConfig.groups},
        f \in StationeryFormats}

\* the files on disk before the command runs: the output file exists or not
FilesBefore(output, prior) ==
    IF prior /\ output # EmptyStr THEN (Resolve(Cwd, output) :> PriorText) ELSE <<>>

InitCJ ==
    /\ cmd = "create-job"
    /\ pc = "main"
    /\ plugin \in {WW, EA}
    /\ minidom_escapes_ws \in BOOLEAN
    /\ \E mode \in {"config", "interactive"}, quiet \in {<<FALSE, FALSE>>, <<TRUE, FALSE>>, <<FALSE, TRUE>>} :
        /\ mode = "interactive" => quiet = <<FALSE, FALSE>>
        /\ \E cf \in ConfigFiles, st \in BOOLEAN, out \in OutputVals :
            /\ mode = "interactive" => cf = [status |-> "missing"]
            /\ mode = "config" => st = TRUE
            /\ args = [mode |-> mode, config |-> cf, stationery_exists |-> st,
                       output |-> out, yes |-> quiet[1], no_preview |-> quiet[2]]
    /\ \E prior \in BOOLEAN : fs = FilesBefore(args.output, prior)
    /\ fs_before = fs
    /\ config = NoRecord /\ errors = <<>> /\ xml_content = NoRecord /\ job_info = NoRecord
    /\ output_path = <<>> /\ content = <<>> /\ temp_path = <<>>
    /\ log = <<>> /\ calls = <<>> /\ exit_code = Running
    /\ job_root = NoRecord /\ job_dir = <<>> /\ results = <<>> /\ all_passed = TRUE /\ stdout = <<>>

\* return code
Exit(code) == pc' = "exit" /\ exit_code' = code

\* config mode: the config file is read
CJLoadConfig ==
    /\ cmd = "create-job" /\ pc = "main" /\ args.mode = "config"
    /\ IF args.config.status = "missing"
         THEN /\ log' = Append(log, <<"Config file not found: ">>)
              /\ Exit(EXIT_FILE_ERROR) /\ UNCHANGED config
       ELSE IF args.config.status = "invalid json"
         THEN /\ log' = Append(log, <<"Invalid JSON in config file: ">>)
              /\ Exit(EXIT_FILE_ERROR) /\ UNCHANGED config
       ELSE /\ config' = args.config.data
            /\ pc' = IF plugin = WW THEN "validate" ELSE "generate"
            /\ UNCHANGED <<log, exit_code>>
    /\ UNCHANGED <<stdout, vj_vars, cmd, errors, xml_content, job_info, minidom_escapes_ws, plugin, args,
                   output_path, content, temp_path, fs, fs_before, calls>>

\* interactive mode: config = interactive_mode(stationery_path)
CJInteractiveMode ==
    /\ cmd = "create-job" /\ pc = "main" /\ args.mode = "interactive"
    /\ IF ~args.stationery_exists
         THEN /\ log' = Append(log, <<"Stationery file not found: ">>)
              /\ Exit(EXIT_FILE_ERROR) /\ UNCHANGED config
       ELSE /\ config' \in InteractiveConfigs(plugin)
            /\ pc' = IF plugin = WW THEN "validate" ELSE "preview"
            /\ UNCHANGED <<log, exit_code>>
    /\ UNCHANGED <<stdout, vj_vars, cmd, errors, xml_content, job_info, minidom_escapes_ws, plugin, args,
                   output_path, content, temp_path, fs, fs_before, calls>>

\* errors = validate_config(config); every error is logged; return 3
CJValidate ==
    /\ cmd = "create-job" /\ pc = "validate"
    /\ errors' = validate_config(config)
    /\ calls' = Append(calls, "validate_config")
    /\ IF errors' # <<>>
         THEN log' = log \o errors' /\ Exit(EXIT_VALIDATION_ERROR)
         ELSE /\ pc' = IF args.mode = "config" THEN "generate" ELSE "preview"
              /\ UNCHANGED <<log, exit_code>>
    /\ UNCHANGED <<stdout, vj_vars, cmd, config, xml_content, job_info, minidom_escapes_ws, plugin, args,
                   output_path, content, temp_path, fs, fs_before>>

\* config mode: xml_content = generate_job_xml(config)
CJGenerate ==
    /\ cmd = "create-job" /\ pc = "generate"
    /\ xml_content' = generate_job_xml(config, minidom_escapes_ws)
    /\ calls' = Append(calls, "generate_job_xml")
    /\ pc' = IF ~args.no_preview /\ ~args.yes THEN "confirm" ELSE "path"
    /\ UNCHANGED <<stdout, vj_vars, cmd, config, errors, job_info, minidom_escapes_ws, plugin, args,
                   output_path, content, temp_path, fs, fs_before, log, exit_code>>

\* a confirmation whose refusal comes too late: an empty output file is left
CJConfirm_Late ==
    /\ cmd = "create-job" /\ pc = "confirm"
    /\ \E answer \in BOOLEAN :
        IF answer
          THEN pc' = "path" /\ UNCHANGED <<exit_code, fs>>
          ELSE /\ Exit(EXIT_CANCELLED)
               /\ fs' = WriteFile(fs, Resolve(Cwd, <<"job.waj">>), <<>>)
    /\ UNCHANGED <<stdout, vj_vars, cmd, config, errors, xml_content, job_info, minidom_escapes_ws, plugin,
                   args, output_path, content, temp_path, fs_before, log, calls>>

\* config mode: if not confirm("Generate job file?"): return EXIT_CANCELLED
CJConfirm ==
    /\ cmd = "create-job" /\ pc = "confirm"
    /\ \E answer \in BOOLEAN :
        IF answer THEN pc' = "path" /\ UNCHANGED exit_code ELSE Exit(EXIT_CANCELLED)
    /\ UNCHANGED <<stdout, vj_vars, cmd, config, errors, xml_content, job_info, minidom_escapes_ws, plugin,
                   args, output_path, content, temp_path, fs, fs_before, log, calls>>

\* interactive mode: if confirm("Preview XML?"): xml_content = generate_job_xml(config)
CJPreview ==
    /\ cmd = "create-job" /\ pc = "preview"
    /\ \E answer \in BOOLEAN :
        IF answer
          THEN /\ xml_content' = generate_job_xml(config, minidom_escapes_ws)
               /\ calls' = Append(calls, "generate_job_xml")
          ELSE UNCHANGED <<xml_content, calls>>
    /\ pc' = "choice"
    /\ UNCHANGED <<stdout, vj_vars, cmd, config, errors, job_info, minidom_escapes_ws, plugin, args,
                   output_path, content, temp_path, fs, fs_before, log, exit_code>>

\* interactive mode: choice = prompt("Generate file? (y=generate, e=export config, c=cancel)")
CJChoice ==
    /\ cmd = "create-job" /\ pc = "choice"
    /\ \E choice \in {"y", "e", "c"} :
        CASE choice = "c" -> Exit(EXIT_CANCELLED) /\ UNCHANGED <<xml_content, calls>>
          [] choice = "e" -> pc' = "export" /\ UNCHANGED <<xml_content, calls, exit_code>>
          [] OTHER -> /\ xml_content' = generate_job_xml(config, minidom_escapes_ws)
                      /\ calls' = Append(calls, "generate_job_xml")
                      /\ pc' = "path" /\ UNCHANGED exit_code
    /\ UNCHANGED <<stdout, vj_vars, cmd, config, errors, job_info, minidom_escapes_ws, plugin,
                   args, output_path, content, temp_path, fs, fs_before, log>>

\* the path is checked (webworks-claude-skills copy only) and the write begins
BeginWrite(path, text) ==
    /\ output_path' = path
    /\ IF plugin = WW /\ ~validate_safe_path(Cwd, path)
         THEN /\ log' = Append(log, <<"Path traversal attempt detected: ", path>>)
              /\ Exit(EXIT_VALIDATION_ERROR) /\ UNCHANGED content
         ELSE /\ content' = text
              /\ pc' = IF plugin = WW THEN "write_file_atomic" ELSE "open"
              /\ UNCHANGED <<log, exit_code>>

\* interactive mode, choice e: the configuration is exported
CJExport ==
    /\ cmd = "create-job" /\ pc = "export"
    /\ BeginWrite((IF plugin = WW THEN sanitize_filename(config.name) ELSE config.name)
                     \o <<"-config.json">>, JsonText(config))
    /\ UNCHANGED <<stdout, vj_vars, cmd, config, errors, xml_content, job_info, minidom_escapes_ws, plugin,
                   args, temp_path, fs, fs_before, calls>>

\* output_path = args.output if args.output else f"{config.get('name', 'job')}.waj"
CJOutputPath ==
    /\ cmd = "create-job" /\ pc = "path"
    /\ BeginWrite(IF args.output # EmptyStr THEN args.output
                  ELSE Get(config, "name", <<"job">>) \o <<".waj">>, XmlText(xml_content))
    /\ UNCHANGED <<stdout, vj_vars, cmd, config, errors, xml_content, job_info, minidom_escapes_ws, plugin,
                   args, temp_path, fs, fs_before, calls>>

\* write_file_atomic: the temporary file is created beside the destination
WFMkstemp ==
    /\ cmd = "create-job" /\ pc = "write_file_atomic"
    /\ calls' = Append(calls, "write_file_atomic")
    /\ LET dest == Resolve(Cwd, output_path)
       IN  IF Parent(dest) \notin Dirs
             THEN Exit(EXIT_TRACEBACK) /\ UNCHANGED <<temp_path, fs>>
             ELSE /\ temp_path' = TempPath(dest)
                  /\ fs' = WriteFile(fs, temp_path', <<>>)
                  /\ pc' = "f.write" /\ UNCHANGED exit_code
    /\ UNCHANGED <<stdout, vj_vars, cmd, config, errors, xml_content, job_info, minidom_escapes_ws, plugin,
                   args, output_path, content, fs_before, log>>

\* f.write(content): the buffer may reach the disk in part
WFWrite ==
    /\ cmd = "create-job" /\ pc = "f.write"
    /\ \E k \in 0..Len(content) : fs' = WriteFile(fs, temp_path, SubSeq(content, 1, k))
    /\ pc' = "f.flush"
    /\ UNCHANGED <<stdout, vj_vars, cmd, config, errors, xml_content, job_info, minidom_escapes_ws, plugin,
                   args, output_path, content, temp_path, fs_before, log, calls, exit_code>>

\* f.flush(); os.fsync(f.fileno()); the file is closed
WFFlush ==
    /\ cmd = "create-job" /\ pc = "f.flush"
    /\ fs' = WriteFile(fs, temp_path, content)
    /\ pc' = "os.replace"
    /\ UNCHANGED <<stdout, vj_vars, cmd, config, errors, xml_content, job_info, minidom_escapes_ws, plugin,
                   args, output_path, content, temp_path, fs_before, log, calls, exit_code>>

\* os.replace(temp_path, path); return EXIT_SUCCESS
WFReplace ==
    /\ cmd = "create-job" /\ pc = "os.replace"
    /\ fs' = WriteFile(RemoveFile(fs, temp_path), Resolve(Cwd, output_path), fs[temp_path])
    /\ Exit(EXIT_SUCCESS)
    /\ UNCHANGED <<stdout, vj_vars, cmd, config, errors, xml_content, job_info, minidom_escapes_ws, plugin,
                   args, output_path, content, temp_path, fs_before, log, calls>>

\* an except clause that reports the removal and leaves the temporary file
WFError_Kept ==
    /\ cmd = "create-job" /\ pc \in {"f.write", "f.flush", "os.replace"}
    /\ fs' = fs
    /\ calls' = Append(calls, "os.unlink")
    /\ Exit(EXIT_TRACEBACK)
    /\ UNCHANGED <<stdout, vj_vars, cmd, config, errors, xml_content, job_info, minidom_escapes_ws, plugin,
                   args, output_path, content, temp_path, fs_before, log>>

\* except: os.unlink(temp_path), an OSError of which is passed over; raise
WFError ==
    /\ cmd = "create-job" /\ pc \in {"f.write", "f.flush", "os.replace"}
    /\ \E unlinked \in BOOLEAN :
        /\ fs' = IF unlinked THEN RemoveFile(fs, temp_path) ELSE fs
        /\ calls' = Append(calls, IF unlinked THEN "os.unlink" ELSE "os.unlink: OSError")
    /\ Exit(EXIT_TRACEBACK)
    /\ UNCHANGED <<stdout, vj_vars, cmd, config, errors, xml_content, job_info, minidom_escapes_ws, plugin,
                   args, output_path, content, temp_path, fs_before, log>>

\* epublisher-automation copy: with open(output_path, 'w') as f
EAOpen ==
    /\ cmd = "create-job" /\ pc = "open"
    /\ calls' = Append(calls, "open")
    /\ LET dest == Resolve(Cwd, output_path)
       IN  IF Parent(dest) \notin Dirs
             THEN Exit(EXIT_TRACEBACK) /\ UNCHANGED fs
             ELSE /\ fs' = WriteFile(fs, dest, <<>>)
                  /\ pc' = "ea f.write" /\ UNCHANGED exit_code
    /\ UNCHANGED <<stdout, vj_vars, cmd, config, errors, xml_content, job_info, minidom_escapes_ws, plugin,
                   args, output_path, content, temp_path, fs_before, log>>

\* epublisher-automation copy: f.write(xml_content)
EAWrite ==
    /\ cmd = "create-job" /\ pc = "ea f.write"
    /\ \E k \in 0..Len(content) :
        fs' = WriteFile(fs, Resolve(Cwd, output_path), SubSeq(content, 1, k))
    /\ pc' = "ea close"
    /\ UNCHANGED <<stdout, vj_vars, cmd, config, errors, xml_content, job_info, minidom_escapes_ws, plugin,
                   args, output_path, content, temp_path, fs_before, log, calls, exit_code>>

\* epublisher-automation copy: the file is closed; return EXIT_SUCCESS
EAClose ==
    /\ cmd = "create-job" /\ pc = "ea close"
    /\ fs' = WriteFile(fs, Resolve(Cwd, output_path), content)
    /\ Exit(EXIT_SUCCESS)
    /\ UNCHANGED <<stdout, vj_vars, cmd, config, errors, xml_content, job_info, minidom_escapes_ws, plugin,
                   args, output_path, content, temp_path, fs_before, log, calls>>

\* the process is interrupted
CJKill ==
    /\ cmd = "create-job" /\ pc \notin {"exit", "killed"}
    /\ pc' = "killed"
    /\ UNCHANGED <<stdout, vj_vars, cmd, config, errors, xml_content, job_info, minidom_escapes_ws, cj_vars>>

NextCJ ==
    \/ CJLoadConfig \/ CJInteractiveMode \/ CJValidate \/ CJGenerate \/ CJConfirm
    \/ CJPreview \/ CJChoice \/ CJExport \/ CJOutputPath
    \/ WFMkstemp \/ WFWrite \/ WFFlush \/ WFReplace \/ WFError
    \/ EAOpen \/ EAWrite \/ EAClose \/ CJKill

SpecCJ == InitCJ /\ [][NextCJ]_vars

(***************************************************************************)
(* validate-job.py: the checks                                             *)
(***************************************************************************)
\* ValidationResult(name)
ValidationResult(name) == [name |-> name, passed |-> FALSE, message |-> <<>>, warnings |-> <<>>]

\* result.pass_check(message)
pass_check(result, message) == [result EXCEPT !.passed = TRUE, !.message = message]

\* result.fail_check(message)
fail_check(result, message) == [result EXCEPT !.passed = FALSE, !.message = message]

\* result.add_warning(message)
add_warning(result, message) == [result EXCEPT !.warnings = Append(@, message)]

\* result.add_warning(message) for every message of a list, in order
add_warnings(result, messages) == [result EXCEPT !.warnings = @ \o messages]

\* what a path beside the job file is: a directory, a file that is not
\* well-formed XML, an XML file, or a name os.stat rejects with an OSError that
\* Path.exists does not swallow (ENAMETOOLONG, EACCES)
Directory == [kind |-> "dir", root |-> NoRecord]
MalformedFile == [kind |-> "malformed", root |-> NoRecord]
XmlFile(tree) == [kind |-> "xml", root |-> tree]
StatError == [kind |-> "oserror", root |-> NoRecord]

\* (job_dir / path).exists() raises
StatRaises(dir, path) == path \in DOMAIN dir /\ dir[path].kind = "oserror"

\* (job_dir / path).exists(): job_dir / '' is the directory itself
Exists(dir, path) == path = EmptyStr \/ (path \in DOMAIN dir /\ dir[path].kind # "oserror")

\* a root check that also requires the version
validate_root_element_VersionRequired(r) ==
    IF /\ r.tag = "Job"
       /\ Attr(r, "name", EmptyStr) # EmptyStr
       /\ Attr(r, "version", EmptyStr) # EmptyStr
      THEN pass_check(ValidationResult("Job element valid"), <<"name">>)
      ELSE fail_check(ValidationResult("Job element valid"), <<"Missing attribute">>)

\* validate_root_element(root)
validate_root_element(r) ==
    LET result == ValidationResult("Job element valid")
        name == Attr(r, "name", EmptyStr)
        version == Attr(r, "version", EmptyStr)
        warned == IF version = EmptyStr
                    THEN add_warning(result, <<"Missing 'version' attribute (defaulting to 1.0)">>)
                    ELSE result
    IN  IF r.tag # "Job"
          THEN fail_check(result, <<"Expected <Job>, found <", r.tag, ">">>)
        ELSE IF name = EmptyStr
          THEN fail_check(result, <<"Missing 'name' attribute on Job element">>)
        ELSE pass_check(warned, <<"name=\"">> \o name \o <<"\" version=\"">>
                                \o (IF version = EmptyStr THEN <<"1.0">> ELSE version)
                                \o <<"\"">>)

\* validate_project_element(root, job_dir) raises instead of returning
project_element_raises(r, dir) ==
    /\ HasChild(r, "Project")
    /\ Attr(Find(r, "Project"), "path", EmptyStr) # EmptyStr
    /\ StatRaises(dir, Attr(Find(r, "Project"), "path", EmptyStr))

\* a stationery check that does not look on disk
validate_project_element_NoDisk(r, dir) ==
    IF HasChild(r, "Project") /\ Attr(Find(r, "Project"), "path", EmptyStr) # EmptyStr
      THEN pass_check(ValidationResult("Stationery reference"), <<"Found: ">>)
      ELSE fail_check(ValidationResult("Stationery reference"), <<"Missing">>)

\* validate_project_element(root, job_dir)
validate_project_element(r, dir) ==
    LET result == ValidationResult("Stationery reference")
        stationery_path == Attr(Find(r, "Project"), "path", EmptyStr)
    IN  IF ~HasChild(r, "Project")
          THEN fail_check(result, <<"Missing <Project> element">>)
        ELSE IF stationery_path = EmptyStr
          THEN fail_check(result, <<"Missing 'path' attribute on Project element">>)
        ELSE IF Exists(dir, stationery_path)
          THEN pass_check(result, <<"Found: ">> \o stationery_path)
        ELSE fail_check(result, <<"Not found: ">> \o stationery_path)

RECURSIVE Concat(_, _)
\* lists[from] \o ... \o lists[Len(lists)]: what a loop adds when its i-th
\* round adds lists[i]
Concat(lists, from) ==
    IF from > Len(lists) THEN <<>> ELSE lists[from] \o Concat(lists, from + 1)

RECURSIVE Sum(_, _)
\* counts[1] + ... + counts[n]
Sum(counts, n) == IF n = 0 THEN 0 ELSE counts[n] + Sum(counts, n - 1)

\* the warnings validate_files_element adds for one group
GroupWarnings(group) ==
    LET docs == FindAll(group, "Document")
        group_name == Attr(group, "name", <<"(unnamed)">>)
    IN  (IF Attr(group, "name", EmptyStr) = EmptyStr
           THEN << <<"Group missing 'name' attribute">> >> ELSE <<>>)
        \o Concat([i \in 1..Len(docs) |->
                      IF Attr(docs[i], "path", EmptyStr) = EmptyStr
                        THEN << <<"Document in '">> \o group_name
                                    \o <<"' missing 'path' attribute">> >>
                        ELSE <<>>], 1)

\* a document-groups check that fails a job without groups
validate_files_element_Strict(r) ==
    IF HasChild(r, "Files") /\ FindAll(Find(r, "Files"), "Group") # <<>>
      THEN pass_check(ValidationResult("Source documents"), <<"groups">>)
      ELSE fail_check(ValidationResult("Source documents"), <<"(empty)">>)

\* validate_files_element(root)
validate_files_element(r) ==
    LET result == ValidationResult("Source documents")
        groups == FindAll(Find(r, "Files"), "Group")
        total_docs == Sum([i \in 1..Len(groups) |-> Len(FindAll(groups[i], "Document"))],
                          Len(groups))
    IN  IF ~HasChild(r, "Files")
          THEN pass_check(add_warning(result,
                    <<"Missing <Files> element - no source documents defined">>), <<"(empty)">>)
        ELSE IF groups = <<>>
          THEN pass_check(add_warning(result, <<"No <Group> elements found">>), <<"(empty)">>)
        ELSE pass_check(
                add_warnings(result,
                    Concat([i \in 1..Len(groups) |-> GroupWarnings(groups[i])], 1)),
                <<ToString(Len(groups)), " groups, ", ToString(total_docs), " documents">>)

\* the non-empty path attributes of the documents of all groups, in document order
DocumentPaths(files) ==
    LET groups == FindAll(files, "Group")
        PathsOf(group) ==
            LET docs == FindAll(group, "Document")
            IN  SelectSeq([i \in 1..Len(docs) |-> Attr(docs[i], "path", EmptyStr)],
                          LAMBDA doc_path : doc_path # EmptyStr)
    IN  Concat([i \in 1..Len(groups) |-> PathsOf(groups[i])], 1)

\* missing[:5]
MaxNamed == 5

\* missing[:5] names every missing path
MissingWarnings_All(missing) ==
    [i \in 1..Len(missing) |-> <<"Not found: ">> \o missing[i]]

\* the warnings validate_documents_exist adds for the list of missing paths
MissingWarnings(missing) ==
    LET shown == SubSeq(missing, 1, IF Len(missing) < MaxNamed THEN Len(missing) ELSE MaxNamed)
    IN  [i \in 1..Len(shown) |-> <<"Not found: ">> \o shown[i]]
        \o (IF Len(missing) > MaxNamed
              THEN << <<"... and ", ToString(Len(missing) - MaxNamed), " more missing">> >>
              ELSE <<>>)

\* a verdict that fails as soon as one document is missing
DocumentsVerdict_Strict(result, found, missing) ==
    IF missing = <<>>
      THEN pass_check(result, <<"All ", ToString(found), " documents found">>)
      ELSE fail_check(result, <<"All ", ToString(Len(missing)), " documents missing">>)

\* the verdict of validate_documents_exist: found documents exist, the listed
\* ones are missing
DocumentsVerdict(result, found, missing) ==
    IF found > 0 /\ missing = <<>>
      THEN pass_check(result, <<"All ", ToString(found), " documents found">>)
    ELSE IF found > 0
      THEN pass_check(result, <<ToString(found), " found, ", ToString(Len(missing)), " missing">>)
    ELSE IF missing # <<>>
      THEN fail_check(result, <<"All ", ToString(Len(missing)), " documents missing">>)
    ELSE pass_check(result, <<"(no documents)">>)

\* validate_documents_exist(root, job_dir) raises instead of returning
documents_exist_raises(r, dir) ==
    /\ HasChild(r, "Files")
    /\ \E i \in 1..Len(DocumentPaths(Find(r, "Files"))) :
            StatRaises(dir, DocumentPaths(Find(r, "Files"))[i])

\* validate_documents_exist(root, job_dir)
validate_documents_exist(r, dir) ==
    LET result == ValidationResult("Document paths")
        paths == DocumentPaths(Find(r, "Files"))
        missing == SelectSeq(paths, LAMBDA doc_path : ~Exists(dir, doc_path))
        found == Len(paths) - Len(missing)
    IN  IF ~HasChild(r, "Files")
          THEN pass_check(result, <<"(no documents)">>)
          ELSE DocumentsVerdict(add_warnings(result, MissingWarnings(missing)), found, missing)

\* only a missing name gives a warning
TargetWarnings_NameOnly(target) ==
    IF Attr(target, "name", EmptyStr) = EmptyStr
      THEN << <<"Target missing 'name' attribute">> >> ELSE <<>>

\* the warnings validate_targets_element adds for one target
TargetWarnings(target) ==
    (IF Attr(target, "name", EmptyStr) = EmptyStr
       THEN << <<"Target missing 'name' attribute">> >> ELSE <<>>)
    \o (IF Attr(target, "format", EmptyStr) = EmptyStr
          THEN << <<"Target '">> \o Attr(target, "name", <<"?">>)
                      \o <<"' missing 'format' attribute">> >>
          ELSE <<>>)

\* validate_targets_element(root)
validate_targets_element(r) ==
    LET result == ValidationResult("Build targets")
        target_list == FindAll(Find(r, "Targets"), "Target")
        enabled == Cardinality({i \in 1..Len(target_list) :
                                    Attr(target_list[i], "build", TrueStr) = TrueStr})
    IN  IF ~HasChild(r, "Targets")
          THEN fail_check(result, <<"Missing <Targets> element">>)
        ELSE IF target_list = <<>>
          THEN fail_check(result, <<"No <Target> elements found">>)
        ELSE pass_check(
                add_warnings(result,
                    Concat([i \in 1..Len(target_list) |-> TargetWarnings(target_list[i])], 1)),
                <<ToString(Len(target_list)), " targets (", ToString(enabled), " enabled)">>)

RECURSIVE Iter(_)
\* element.iter(): the element and its descendants, in document order
Iter(e) == <<e>> \o Concat([i \in 1..Len(e.children) |-> Iter(e.children[i])], 1)

\* the tag of a Format element in the namespace 'urn:WebWorks-Publish-Project'
NsFormat == "{urn:WebWorks-Publish-Project}Format"

\* the Format elements of a Stationery: the namespaced descendants of the root,
\* or without any, the elements with the bare tag, the root included
FormatElements(stationery_root) ==
    LET qualified == SelectSeq(Tail(Iter(stationery_root)), LAMBDA f : f.tag = NsFormat)
    IN  IF qualified # <<>>
          THEN qualified
          ELSE SelectSeq(Iter(stationery_root), LAMBDA f : f.tag = "Format")

\* set(f.get('Name', '') for f in format_elements)
AvailableFormats(stationery_root) ==
    LET format_elements == FormatElements(stationery_root)
    IN  {Attr(format_elements[i], "Name", EmptyStr) : i \in 1..Len(format_elements)}

\* the orders in which iterating a set of strings can give its elements
Orders(S) == {o \in [1..Cardinality(S) -> S] : \A x \in S : \E i \in DOMAIN o : o[i] = x}

RECURSIVE join(_, _)
\* sep.join(strings)
join(sep, strings) ==
    IF strings = <<>> THEN <<>>
    ELSE IF Len(strings) = 1 THEN strings[1]
    ELSE strings[1] \o sep \o join(sep, Tail(strings))

\* a path that does not exist
Missing == [kind |-> "missing", root |-> NoRecord]

\* what job_dir / path is; job_dir / '' and Path() are directories that exist
PathContent(dir, path) ==
    IF path = EmptyStr THEN Directory
    ELSE IF path \in DOMAIN dir THEN dir[path]
    ELSE Missing

\* main's stationery_path
StationeryPath(r) ==
    IF HasChild(r, "Project") THEN Attr(Find(r, "Project"), "path", EmptyStr) ELSE EmptyStr

\* a format-name check that fails when the Stationery cannot be loaded
validate_target_formats_Strict(r, stationery, order) ==
    LET result == ValidationResult("Format names")
    IN  IF stationery.kind # "xml"
          THEN fail_check(add_warning(result, <<"Skipped - Stationery not found">>),
                          <<"(skipped)">>)
          ELSE pass_check(result, <<"(no targets)">>)

\* validate_target_formats(root, stationery_path), where stationery is what is
\* at stationery_path and order the order in which available_formats iterates
validate_target_formats(r, stationery, order) ==
    LET result == ValidationResult("Format names")
        available_formats == AvailableFormats(stationery.root)
        target_list == FindAll(Find(r, "Targets"), "Target")
        formats == [i \in 1..Len(target_list) |-> Attr(target_list[i], "format", EmptyStr)]
        invalid == SelectSeq(formats, LAMBDA format_name : format_name \notin available_formats)
        valid == Len(formats) - Len(invalid)
        warned ==
            IF invalid # <<>>
              THEN add_warning(
                     add_warnings(result,
                        [i \in 1..Len(invalid) |-> <<"Format not in Stationery: ">> \o invalid[i]]),
                     <<"Available: ">> \o join(<<", ">>, order))
              ELSE result
    IN  IF stationery.kind = "missing"
          THEN pass_check(add_warning(result, <<"Skipped - Stationery not found">>),
                          <<"(skipped)">>)
        ELSE IF stationery.kind # "xml"
          THEN pass_check(add_warning(result, <<"Failed to parse Stationery: ", "e">>),
                          <<"(skipped)">>)
        ELSE IF ~HasChild(r, "Targets")
          THEN pass_check(result, <<"(no targets)">>)
        ELSE IF valid > 0 /\ invalid = <<>>
          THEN pass_check(warned, <<"All ", ToString(valid), " formats valid">>)
        ELSE IF valid > 0
          THEN pass_check(warned, <<ToString(valid), " valid, ", ToString(Len(invalid)),
                                    " invalid">>)
        ELSE fail_check(warned, <<"No valid formats">>)

\* the orders available_formats can iterate in, for what is at stationery_path
FormatOrders(stationery) ==
    IF stationery.kind = "xml" THEN Orders(AvailableFormats(stationery.root)) ELSE {<<>>}

\* str.lower() of one character
LowerChar(c) ==
    CASE c = "W" -> "w" [] c = "A" -> "a" [] c = "J" -> "j" [] OTHER -> c

\* str.lower()
Lower(str) == [i \in 1..Len(str) |-> LowerChar(str[i])]

\* validate_file_exists(job_file)
validate_file_exists(job_file) ==
    LET result == ValidationResult("Job file exists")
    IN  IF ~job_file.exists
          THEN fail_check(result, <<"File not found: ">> \o job_file.stem \o job_file.suffix)
        ELSE IF Lower(job_file.suffix) # <<".", "w", "a", "j">>
          THEN fail_check(result, <<"Invalid extension: ">> \o job_file.suffix
                                    \o <<" (expected .waj)">>)
        ELSE pass_check(result, job_file.stem \o job_file.suffix)

\* validate_xml_wellformed(job_file): the result
validate_xml_wellformed(job_file) ==
    LET result == ValidationResult("XML well-formed")
    IN  IF job_file.content.kind = "xml"
          THEN pass_check(result, <<>>)
          ELSE fail_check(result, <<"e">>)

(***************************************************************************)
(* validate-job.py: the jobs and directories main is run on                *)
(***************************************************************************)
\* a Stationery with the formats Alpha and Beta
StationeryRoot ==
    Elem("Project", <<>>,
         << Elem("Formats", <<>>,
                 << Elem("Format", << <<"Name", <<"Alpha">> >> >>, <<>>),
                    Elem("Format", << <<"Name", <<"Beta">> >> >>, <<>>) >>) >>)

\* a path whose name is longer than the file system allows
LongName == <<"long">>

\* the directory of the job file
JobDirs ==
    { (<<"s.wsxp">> :> XmlFile(StationeryRoot)) @@ (<<"bad.wsxp">> :> MalformedFile)
        @@ (<<"a.md">> :> MalformedFile) @@ (<<"b.md">> :> MalformedFile)
        @@ (LongName :> StatError) }

\* the attribute lists of the Job element
RootAttrs ==
    { << <<"name", <<"j">> >>, <<"version", <<"1.0">> >> >>,
      << <<"name", <<"j">> >> >>,
      << <<"version", <<"1.0">> >> >>,
      << <<"name", EmptyStr>>, <<"version", <<"1.0">> >> >>,
      << <<"name", <<"j">> >>, <<"version", EmptyStr>> >> }

\* the Project children of the Job element
ProjectVals ==
    { <<>>,
      << Elem("Project", <<>>, <<>>) >>,
      << Elem("Project", << <<"path", EmptyStr>> >>, <<>>) >>,
      << Elem("Project", << <<"path", <<"s.wsxp">> >> >>, <<>>) >>,
      << Elem("Project", << <<"path", <<"bad.wsxp">> >> >>, <<>>) >>,
      << Elem("Project", << <<"path", <<"gone.wsxp">> >> >>, <<>>) >>,
      << Elem("Project", << <<"path", LongName>> >>, <<>>) >> }

Document(path) == Elem("Document", << <<"path", path>> >>, <<>>)

\* the Files children of the Job element
FilesVals ==
    { <<>>,
      << Elem("Files", <<>>, <<>>) >>,
      << Elem("Files", <<>>,
              << Elem("Group", <<>>, << Elem("Document", <<>>, <<>>) >>) >>) >>,
      << Elem("Files", <<>>,
              << Elem("Group", << <<"name", <<"g">> >> >>,
                      << Document(<<"a.md">>), Document(<<"gone.md">>) >>) >>) >>,
      << Elem("Files", <<>>,
              << Elem("Group", << <<"name", <<"g">> >> >>, << Document(<<"gone.md">>) >>) >>) >>,
      << Elem("Files", <<>>,
              << Elem("Group", << <<"name", <<"g">> >> >>,
                      << Document(<<"a.md">>), Document(LongName) >>) >>) >> }

Target(attrs) == Elem("Target", attrs, <<>>)

\* the Targets children of the Job element
TargetsVals ==
    { <<>>,
      << Elem("Targets", <<>>, <<>>) >>,
      << Elem("Targets", <<>>,
              << Target(<< <<"name", <<"t">> >>, <<"format", <<"Alpha">> >> >>) >>) >>,
      << Elem("Targets", <<>>,
              << Target(<< <<"name", <<"t">> >>, <<"format", <<"Alpha">> >> >>),
                 Target(<< <<"format", <<"Gamma">> >>, <<"build", <<"False">> >> >>) >>) >>,
      << Elem("Targets", <<>>,
              << Target(<< <<"name", <<"t">> >> >>) >>) >>,
      << Elem("Targets", <<>>,
              << Target(<< <<"name", EmptyStr>>, <<"format", EmptyStr>>,
                           <<"build", <<"true">> >> >>),
                 Target(<<>>) >>) >> }

\* the root elements of the job files
JobRoots ==
    { Elem(tag, attrs, project \o files \o targets) :
        tag \in {"Job"}, attrs \in RootAttrs, project \in ProjectVals,
        files \in FilesVals, targets \in TargetsVals }
    \cup { Elem("Other", << <<"name", <<"j">> >> >>, <<>>) }

\* the job files: missing, with another extension, not well-formed, well-formed
JobFiles ==
    { [exists |-> FALSE, stem |-> <<"job">>, suffix |-> <<".", "w", "a", "j">>,
       content |-> Missing],
      [exists |-> TRUE, stem |-> <<"job">>, suffix |-> <<".", "x", "m", "l">>,
       content |-> MalformedFile],
      [exists |-> TRUE, stem |-> <<"job">>, suffix |-> <<".", "W", "A", "J">>,
       content |-> MalformedFile] }
    \cup { [exists |-> TRUE, stem |-> <<"job">>, suffix |-> <<".", "w", "a", "j">>,
            content |-> XmlFile(r)] : r \in JobRoots }

(***************************************************************************)
(* validate-job.py: main                                                   *)
(***************************************************************************)
EXIT_VALIDATION_FAILED == 3

\* the variables validate-job leaves alone
not_vj_vars == <<config, errors, xml_content, job_info, minidom_escapes_ws, plugin,
                 output_path, content, temp_path, fs, fs_before, calls, stdout>>

InitVJ ==
    /\ cmd = "validate-job"
    /\ pc = "file exists"
    /\ args \in [job_file : JobFiles, check_documents : BOOLEAN,
                 check_stationery : BOOLEAN, verbose : BOOLEAN]
    /\ job_dir \in JobDirs
    /\ job_root = NoRecord /\ results = <<>> /\ all_passed = TRUE /\ stdout = <<>>
    /\ log = <<>> /\ exit_code = Running
    /\ config = NoRecord /\ errors = <<>> /\ xml_content = NoRecord /\ job_info = NoRecord
    /\ minidom_escapes_ws = FALSE /\ plugin = EA
    /\ output_path = <<>> /\ content = <<>> /\ temp_path = <<>>
    /\ fs = <<>> /\ fs_before = <<>> /\ calls = <<>>

\* results.append(result); if not result.passed: all_passed = False
Record(result, next) ==
    /\ results' = Append(results, result)
    /\ all_passed' = (all_passed /\ result.passed)
    /\ pc' = next
    /\ UNCHANGED <<log, exit_code>>

\* an exception nothing catches: the interpreter prints the traceback and exits
Traceback ==
    /\ pc' = "exit" /\ exit_code' = EXIT_TRACEBACK
    /\ UNCHANGED <<results, all_passed, log>>

\* Check 1: File exists
VJFileExists ==
    /\ cmd = "validate-job" /\ pc = "file exists"
    /\ LET result == validate_file_exists(args.job_file)
       IN  /\ results' = Append(results, result)
           /\ IF ~result.passed
                THEN log' = Append(log, result) /\ Exit(EXIT_FILE_ERROR)
                ELSE pc' = "well-formed" /\ UNCHANGED <<log, exit_code>>
    /\ UNCHANGED <<cmd, args, job_root, job_dir, all_passed, not_vj_vars>>

\* Check 2: XML well-formed
VJWellFormed ==
    /\ cmd = "validate-job" /\ pc = "well-formed"
    /\ LET result == validate_xml_wellformed(args.job_file)
       IN  /\ results' = Append(results, result)
           /\ IF ~result.passed
                THEN /\ log' = log \o results'
                     /\ Exit(EXIT_VALIDATION_FAILED)
                     /\ UNCHANGED job_root
                ELSE /\ job_root' = args.job_file.content.root
                     /\ pc' = "root"
                     /\ UNCHANGED <<log, exit_code>>
    /\ UNCHANGED <<cmd, args, job_dir, all_passed, not_vj_vars>>

\* Check 3: Root element
VJRoot ==
    /\ cmd = "validate-job" /\ pc = "root"
    /\ Record(validate_root_element(job_root), "project")
    /\ UNCHANGED <<cmd, args, job_root, job_dir, not_vj_vars>>

\* Check 4: Project element
VJProject ==
    /\ cmd = "validate-job" /\ pc = "project"
    /\ IF project_element_raises(job_root, job_dir)
         THEN Traceback
         ELSE Record(validate_project_element(job_root, job_dir), "files")
    /\ UNCHANGED <<cmd, args, job_root, job_dir, not_vj_vars>>

\* Check 5: Files element
VJFiles ==
    /\ cmd = "validate-job" /\ pc = "files"
    /\ Record(validate_files_element(job_root), "documents")
    /\ UNCHANGED <<cmd, args, job_root, job_dir, not_vj_vars>>

\* Check 6: Document existence (optional)
VJDocuments ==
    /\ cmd = "validate-job" /\ pc = "documents"
    /\ IF ~args.check_documents
         THEN pc' = "targets" /\ UNCHANGED <<results, all_passed, log, exit_code>>
       ELSE IF documents_exist_raises(job_root, job_dir)
         THEN Traceback
       ELSE Record(validate_documents_exist(job_root, job_dir), "targets")
    /\ UNCHANGED <<cmd, args, job_root, job_dir, not_vj_vars>>

\* Check 7: Targets element
VJTargets ==
    /\ cmd = "validate-job" /\ pc = "targets"
    /\ Record(validate_targets_element(job_root), "formats")
    /\ UNCHANGED <<cmd, args, job_root, job_dir, not_vj_vars>>

\* Check 8: Format validation (optional)
VJFormats ==
    /\ cmd = "validate-job" /\ pc = "formats"
    /\ LET stationery_path == StationeryPath(job_root)
           stationery == PathContent(job_dir, stationery_path)
       IN  IF ~args.check_stationery
             THEN pc' = "summary" /\ UNCHANGED <<results, all_passed, log, exit_code>>
           ELSE IF StatRaises(job_dir, stationery_path)
             THEN Traceback
           ELSE \E order \in FormatOrders(stationery) :
                    Record(validate_target_formats(job_root, stationery, order), "summary")
    /\ UNCHANGED <<cmd, args, job_root, job_dir, not_vj_vars>>

\* Print results, Summary
VJSummary ==
    /\ cmd = "validate-job" /\ pc = "summary"
    /\ log' = log \o SelectSeq(results,
                        LAMBDA result : args.verbose \/ ~result.passed \/ result.warnings # <<>>)
    /\ Exit(IF all_passed THEN EXIT_SUCCESS ELSE EXIT_VALIDATION_FAILED)
    /\ UNCHANGED <<cmd, args, job_root, job_dir, results, all_passed, not_vj_vars>>

NextVJ ==
    \/ VJFileExists \/ VJWellFormed \/ VJRoot \/ VJProject \/ VJFiles
    \/ VJDocuments \/ VJTargets \/ VJFormats \/ VJSummary

SpecVJ == InitVJ /\ [][NextVJ]_vars

(***************************************************************************)
(* validate_documents_exist on jobs of up to MaxDocuments documents        *)
(***************************************************************************)
MaxDocuments == 7

\* the path of the i-th document of a job
DocPath(i) == <<"doc", ToString(i)>>

\* what a document of these jobs is: a file that exists, a path that does
\* not, a Document without path, a path os.stat rejects
DocKinds == {"exists", "missing", "no path", "oserror"}

\* the Document element of the i-th document
DocElem(kinds, i) ==
    Elem("Document", IF kinds[i] = "no path" THEN <<>> ELSE << <<"path", DocPath(i)>> >>, <<>>)

\* the job whose documents are of the given kinds, in two groups
DocsJob(kinds) ==
    LET half == Len(kinds) \div 2
        docs == [i \in 1..Len(kinds) |-> DocElem(kinds, i)]
    IN  Elem("Job", << <<"name", <<"j">> >> >>,
             << Elem("Files", <<>>,
                     << Elem("Group", << <<"name", <<"g1">> >> >>, SubSeq(docs, 1, half)),
                        Elem("Group", << <<"name", <<"g2">> >> >>,
                             SubSeq(docs, half + 1, Len(docs))) >>) >>)

\* the directory in which the documents of the given kinds are
DocsDir(kinds) ==
    [doc_path \in {DocPath(i) : i \in {j \in 1..Len(kinds) : kinds[j] \in {"exists", "oserror"}}}
        |-> IF \E i \in 1..Len(kinds) : DocPath(i) = doc_path /\ kinds[i] = "oserror"
              THEN StatError ELSE MalformedFile]

InitDocs ==
    /\ cmd = "validate_documents_exist"
    /\ pc = "start"
    /\ \/ \E kinds \in SeqsUpTo(DocKinds, MaxDocuments) :
            job_root = DocsJob(kinds) /\ job_dir = DocsDir(kinds)
       \/ job_root = Elem("Job", << <<"name", <<"j">> >> >>, <<>>) /\ job_dir = <<>>
    /\ results = <<>> /\ all_passed = TRUE /\ stdout = <<>>
    /\ log = <<>> /\ exit_code = Running /\ args = NoRecord
    /\ config = NoRecord /\ errors = <<>> /\ xml_content = NoRecord /\ job_info = NoRecord
    /\ minidom_escapes_ws = FALSE /\ plugin = EA
    /\ output_path = <<>> /\ content = <<>> /\ temp_path = <<>>
    /\ fs = <<>> /\ fs_before = <<>> /\ calls = <<>>

\* result = validate_documents_exist(root, job_dir)
DocsCheck ==
    /\ cmd = "validate_documents_exist" /\ pc = "start"
    /\ IF documents_exist_raises(job_root, job_dir)
         THEN pc' = "raised" /\ UNCHANGED results
         ELSE pc' = "done" /\ results' = <<validate_documents_exist(job_root, job_dir)>>
    /\ UNCHANGED <<cmd, args, job_root, job_dir, all_passed, log, exit_code, not_vj_vars>>

NextDocs == DocsCheck

SpecDocs == InitDocs /\ [][NextDocs]_vars

(***************************************************************************)
(* validate_target_formats on small Stationery files and jobs              *)
(***************************************************************************)
MaxFormats == 2

\* the attribute lists of the Format elements of these Stationery files
FormatAttrs == {<<>>} \cup {<< <<"Name", n>> >> : n \in {<<"Alpha">>, <<"Beta">>}}

\* the roots of these Stationery files: the formats in or outside the
\* namespace, one of each, and a root that is itself a Format
StationeryRoots ==
    { Elem("Project", <<>>,
           << Elem("Formats", <<>>, [i \in 1..Len(fs_) |-> Elem(tag, fs_[i], <<>>)]) >>) :
        tag \in {NsFormat, "Format"}, fs_ \in SeqsUpTo(FormatAttrs, MaxFormats) }
    \cup { Elem("Project", <<>>,
                << Elem("Format", << <<"Name", <<"Alpha">> >> >>, <<>>),
                   Elem(NsFormat, << <<"Name", <<"Beta">> >> >>, <<>>) >>),
           Elem("Format", << <<"Name", <<"Alpha">> >> >>,
                << Elem("Format", << <<"Name", <<"Beta">> >> >>, <<>>) >>) }

\* what is at the stationery path of these jobs
StationeryVals == {Missing, Directory, MalformedFile} \cup {XmlFile(r) : r \in StationeryRoots}

\* the attribute lists of the Target elements of these jobs
TargetFormatAttrs ==
    { << <<"name", <<"t">> >> >> }
    \cup { << <<"name", <<"t">> >>, <<"format", f>> >> :
            f \in {EmptyStr, <<"Alpha">>, <<"Beta">>, <<"Gamma">>} }

\* the Targets children of these jobs
FormatsTargets ==
    { <<>> } \cup { << Elem("Targets", <<>>, [i \in 1..Len(ts) |-> Target(ts[i])]) >> :
                        ts \in SeqsUpTo(TargetFormatAttrs, MaxTargets) }

InitTF ==
    /\ cmd = "validate_target_formats"
    /\ pc = "start"
    /\ \E targets \in FormatsTargets :
            job_root = Elem("Job", << <<"name", <<"j">> >> >>,
                            << Elem("Project", << <<"path", <<"s.wsxp">> >> >>, <<>>) >>
                            \o targets)
    /\ \E stationery \in StationeryVals :
            job_dir = IF stationery = Missing THEN <<>> ELSE (<<"s.wsxp">> :> stationery)
    /\ results = <<>> /\ all_passed = TRUE /\ stdout = <<>>
    /\ log = <<>> /\ exit_code = Running /\ args = NoRecord
    /\ config = NoRecord /\ errors = <<>> /\ xml_content = NoRecord /\ job_info = NoRecord
    /\ minidom_escapes_ws = FALSE /\ plugin = EA
    /\ output_path = <<>> /\ content = <<>> /\ temp_path = <<>>
    /\ fs = <<>> /\ fs_before = <<>> /\ calls = <<>>

\* result = validate_target_formats(root, stationery_path)
TFCheck ==
    /\ cmd = "validate_target_formats" /\ pc = "start"
    /\ LET stationery == PathContent(job_dir, StationeryPath(job_root))
       IN  \E order \in FormatOrders(stationery) :
                results' = <<validate_target_formats(job_root, stationery, order)>>
    /\ pc' = "done"
    /\ UNCHANGED <<cmd, args, job_root, job_dir, all_passed, log, exit_code, not_vj_vars>>

NextTF == TFCheck

SpecTF == InitTF /\ [][NextTF]_vars

(***************************************************************************)
(* list-job-targets.py: extract_targets                                    *)
(***************************************************************************)
\* a target that is built unless its build attribute says "False"
TargetListing_Truthy(target_elem) ==
    [TargetInfo(target_elem) EXCEPT !.build = (Attr(target_elem, "build", TrueStr) # FalseStr)]
        @@ [conditionsCount |-> 0, variablesCount |-> 0, settingsCount |-> 0]

\* the dict extract_targets builds for one Target element
TargetListing(target_elem) ==
    [name |-> Attr(target_elem, "name", EmptyStr),
     format |-> Attr(target_elem, "format", EmptyStr),
     formatType |-> Attr(target_elem, "formatType", <<"Application">>),
     build |-> (Attr(target_elem, "build", TrueStr) = TrueStr),
     cleanOutput |-> (Attr(target_elem, "cleanOutput", FalseStr) = TrueStr),
     deployTarget |-> Attr(target_elem, "deployTarget", EmptyStr),
     conditionsCount |-> Len(NameValues(target_elem, "Conditions", "Condition")),
     variablesCount |-> Len(NameValues(target_elem, "Variables", "Variable")),
     settingsCount |-> Len(NameValues(target_elem, "Settings", "Setting")),
     conditions |-> NameValues(target_elem, "Conditions", "Condition"),
     variables |-> NameValues(target_elem, "Variables", "Variable"),
     settings |-> NameValues(target_elem, "Settings", "Setting")]

\* extract_targets(root)
extract_targets(r) ==
    LET target_elems ==
            IF HasChild(r, "Targets") THEN FindAll(Find(r, "Targets"), "Target") ELSE <<>>
    IN  [i \in 1..Len(target_elems) |-> TargetListing(target_elems[i])]

(***************************************************************************)
(* The readers of the targets of a job, on jobs whose targets carry the    *)
(* build and cleanOutput attributes in many spellings                      *)
(***************************************************************************)
\* the values of a boolean attribute in these jobs
FlagVals == {TrueStr, <<"true">>, <<"TRUE">>, <<"1">>, FalseStr, EmptyStr}

\* the attribute lists with a boolean attribute absent or with one of the values
FlagAttrs(name) == {<<>>} \cup {<< <<name, v>> >> : v \in FlagVals}

\* the Target elements of these jobs
FlagTargets ==
    { Target(<< <<"name", <<"t">> >>, <<"format", <<"Alpha">> >> >> \o b \o c) :
        b \in FlagAttrs("build"), c \in FlagAttrs("cleanOutput") }

\* these jobs: no Targets element, or targets of which one carries the attributes
FlagJobs ==
    { Elem("Job", << <<"name", <<"j">> >> >>, targets) :
        targets \in { <<>> } \cup
            { << Elem("Targets", <<>>, ts) >> :
                ts \in OneAmong(FlagTargets,
                                Target(<< <<"name", <<"u">> >>, <<"format", <<"Beta">> >> >>),
                                MaxTargets) } }

InitFlags ==
    /\ cmd = "targets"
    /\ pc = "start"
    /\ job_root \in FlagJobs
    /\ job_dir = <<>> /\ results = <<>> /\ all_passed = TRUE /\ stdout = <<>>
    /\ log = <<>> /\ exit_code = Running /\ args = NoRecord
    /\ config = NoRecord /\ errors = <<>> /\ xml_content = NoRecord /\ job_info = NoRecord
    /\ minidom_escapes_ws = FALSE /\ plugin = EA
    /\ output_path = <<>> /\ content = <<>> /\ temp_path = <<>>
    /\ fs = <<>> /\ fs_before = <<>> /\ calls = <<>>

\* parse-job: job_info = extract_job_info(root, args.job_file)
FlagsParseJob ==
    /\ cmd = "targets" /\ job_info = NoRecord
    /\ job_info' = extract_job_info(job_root, DOMAIN job_dir)
    /\ UNCHANGED <<cmd, pc, config, errors, xml_content, minidom_escapes_ws, cj_vars, vj_vars,
                   stdout>>

\* list-job-targets: targets = extract_targets(root); output_json(targets)
FlagsListTargets ==
    /\ cmd = "targets" /\ stdout = <<>>
    /\ stdout' = <<extract_targets(job_root)>>
    /\ UNCHANGED <<cmd, pc, config, errors, xml_content, job_info, minidom_escapes_ws, cj_vars,
                   vj_vars>>

\* validate-job: result = validate_targets_element(root)
FlagsValidate ==
    /\ cmd = "targets" /\ results = <<>>
    /\ results' = <<validate_targets_element(job_root)>>
    /\ UNCHANGED <<cmd, pc, config, errors, xml_content, job_info, minidom_escapes_ws, cj_vars,
                   job_root, job_dir, all_passed, stdout>>

NextFlags == FlagsParseJob \/ FlagsListTargets \/ FlagsValidate

SpecFlags == InitFlags /\ [][NextFlags]_vars

(***************************************************************************)
(* parse-job.py: main                                                      *)
(***************************************************************************)
EXIT_PARSE_ERROR == 3

\* the paths beside the job file that exist
ExistingPaths(dir) == {path \in DOMAIN dir : dir[path].kind # "oserror"}

\* extract_job_info(root, job_path) raises instead of returning
extract_job_info_raises(r, dir) ==
    /\ HasChild(r, "Project")
    /\ Attr(Find(r, "Project"), "path", EmptyStr) # EmptyStr
    /\ StatRaises(dir, Attr(Find(r, "Project"), "path", EmptyStr))

\* validate_job_file(job_file): the messages it logs, none when the file is valid
validate_job_file(job_file) ==
    IF ~job_file.exists
      THEN << <<"Job file not found: ">> \o job_file.stem \o job_file.suffix >>
    ELSE IF Lower(job_file.suffix) # <<".", "w", "a", "j">>
      THEN << <<"Invalid job file extension: ">> \o job_file.stem \o job_file.suffix,
              <<"Expected: .waj">> >>
    ELSE <<>>

\* log_verbose(message, verbose)
log_verbose(message, verbose) == IF verbose THEN << <<"[VERBOSE] ">> \o message >> ELSE <<>>

\* the dict output_config prints
output_config(info) ==
    [name |-> info.name, stationery |-> info.stationery,
     groups |-> info.groups, targets |-> info.targets]

InitPJ ==
    /\ cmd = "parse-job"
    /\ pc = "validate_job_file"
    /\ args \in [job_file : JobFiles, json : BOOLEAN, config : BOOLEAN, verbose : BOOLEAN]
    /\ job_dir \in JobDirs
    /\ job_root = NoRecord /\ results = <<>> /\ all_passed = TRUE /\ stdout = <<>>
    /\ log = <<>> /\ exit_code = Running
    /\ config = NoRecord /\ errors = <<>> /\ xml_content = NoRecord /\ job_info = NoRecord
    /\ minidom_escapes_ws = FALSE /\ plugin = EA
    /\ output_path = <<>> /\ content = <<>> /\ temp_path = <<>>
    /\ fs = <<>> /\ fs_before = <<>> /\ calls = <<>>

\* the variables parse-job leaves alone
not_pj_vars == <<cmd, args, config, errors, xml_content, minidom_escapes_ws, plugin, output_path,
                 content, temp_path, fs, fs_before, calls, job_dir, results, all_passed>>

\* if not validate_job_file(args.job_file): return EXIT_FILE_ERROR
PJValidateFile ==
    /\ cmd = "parse-job" /\ pc = "validate_job_file"
    /\ LET messages == validate_job_file(args.job_file)
       IN  IF messages # <<>>
             THEN log' = log \o messages /\ Exit(EXIT_FILE_ERROR)
             ELSE /\ log' = log \o log_verbose(<<"Parsing job file: ">>, args.verbose)
                  /\ pc' = "parse_job_xml" /\ UNCHANGED exit_code
    /\ UNCHANGED <<job_root, job_info, stdout, not_pj_vars>>

\* root = parse_job_xml(args.job_file); if root is None: return EXIT_PARSE_ERROR
PJParse ==
    /\ cmd = "parse-job" /\ pc = "parse_job_xml"
    /\ IF args.job_file.content.kind # "xml"
         THEN /\ log' = Append(log, <<"Failed to parse XML: ", "e">>)
              /\ Exit(EXIT_PARSE_ERROR) /\ UNCHANGED job_root
         ELSE /\ job_root' = args.job_file.content.root
              /\ pc' = "extract_job_info" /\ UNCHANGED <<log, exit_code>>
    /\ UNCHANGED <<job_info, stdout, not_pj_vars>>

\* job_info = extract_job_info(root, args.job_file)
PJExtract ==
    /\ cmd = "parse-job" /\ pc = "extract_job_info"
    /\ IF extract_job_info_raises(job_root, job_dir)
         THEN Exit(EXIT_TRACEBACK) /\ UNCHANGED <<job_info, log>>
         ELSE /\ job_info' = extract_job_info(job_root, ExistingPaths(job_dir))
              /\ log' = log \o log_verbose(<<"Job name: ">> \o job_info'.name, args.verbose)
                            \o log_verbose(<<"Found ", ToString(Len(job_info'.groups)),
                                             " groups">>, args.verbose)
                            \o log_verbose(<<"Found ", ToString(Len(job_info'.targets)),
                                             " targets">>, args.verbose)
              /\ pc' = "output" /\ UNCHANGED exit_code
    /\ UNCHANGED <<job_root, stdout, not_pj_vars>>

\* Output results; return EXIT_SUCCESS
PJOutput ==
    /\ cmd = "parse-job" /\ pc = "output"
    /\ stdout' = IF args.config THEN <<[format |-> "config", data |-> output_config(job_info)]>>
                 ELSE IF args.json THEN <<[format |-> "json", data |-> job_info]>>
                 ELSE <<[format |-> "text", data |-> job_info]>>
    /\ Exit(EXIT_SUCCESS)
    /\ UNCHANGED <<job_root, job_info, log, not_pj_vars>>

NextPJ == PJValidateFile \/ PJParse \/ PJExtract \/ PJOutput

SpecPJ == InitPJ /\ [][NextPJ]_vars

(***************************************************************************)
(* create-job.py: the text generate_job_xml returns, called repeatedly     *)
(***************************************************************************)
MaxCalls == 2

\* the indentation toprettyxml(indent='  ') writes at a depth
Indent(depth) == [i \in 1..(2 * depth) |-> " "]

RECURSIVE writexml(_, _, _)
\* minidom's Element.writexml with addindent '  ' and newl '\n': the start tag
\* with the attributes in their order, then "/>" for an element without
\* children, else the children one level deeper and the end tag
writexml(e, depth, escapes_ws) ==
    LET attrs == Concat([i \in 1..Len(e.attrs) |->
                            <<" ", e.attrs[i][1], "=\"">>
                            \o MinidomWriteData(e.attrs[i][2], escapes_ws) \o <<"\"">>], 1)
        children == Concat([i \in 1..Len(e.children) |->
                               writexml(e.children[i], depth + 1, escapes_ws)], 1)
    IN  Indent(depth) \o <<"<", e.tag>> \o attrs
        \o (IF e.children = <<>> THEN <<"/>", NL>>
            ELSE <<">", NL>> \o children \o Indent(depth) \o <<"</", e.tag, ">", NL>>)

\* dom.toprettyxml(indent='  ') as text: minidom's own declaration, then the tree
pretty_xml(c, escapes_ws) ==
    <<"<?xml version=\"1.0\" ?>", NL>>
    \o writexml(ParseXml(tostring(JobElem(c))), 0, escapes_ws)

RECURSIVE split(_)
\* s.split('\n')
split(s) ==
    LET at == {i \in 1..Len(s) : s[i] = NL}
    IN  IF at = {} THEN <<s>>
        ELSE LET i == CHOOSE k \in at : \A j \in at : k <= j
             IN  <<SubSeq(s, 1, i - 1)>> \o split(SubSeq(s, i + 1, Len(s)))

\* lines[0] = '<?xml version="1.0" encoding="utf-8"?>'
ReplaceFirstLine(lines) == [lines EXCEPT ![1] = <<XmlDeclaration>>]

NonBlankLines_Kept(lines) == lines

\* [line for line in lines if line.strip()]
NonBlankLines(lines) == SelectSeq(lines, LAMBDA line : ~IsBlank(line))

\* the string generate_job_xml(config) returns
generate_job_xml_text(c, escapes_ws) ==
    join(<<NL>>, NonBlankLines(ReplaceFirstLine(split(pretty_xml(c, escapes_ws)))))

\* configurations whose name or paths hold line breaks
MultilineConfigs ==
    {[BaseConfig EXCEPT !.name = n] :
        n \in {<<"a", NL, " ", NL, "b">>, <<NL, "a">>, <<"a", NL>>, <<NL>>}}
    \cup {[BaseConfig EXCEPT !.groups = <<[name |-> <<"g">>, documents |-> << <<"d", NL, NL>> >>]>>]}

InitDet ==
    /\ cmd = "generate_job_xml"
    /\ pc = "call"
    /\ config \in Configs \cup MultilineConfigs
    /\ minidom_escapes_ws \in BOOLEAN
    /\ errors = <<>>
    /\ xml_content = NoRecord
    /\ job_info = NoRecord
    /\ plugin = None /\ args = NoRecord /\ output_path = <<>> /\ content = <<>>
    /\ temp_path = <<>> /\ fs = <<>> /\ fs_before = <<>> /\ log = <<>>
    /\ calls = <<>>
    /\ exit_code = Running
    /\ job_root = NoRecord /\ job_dir = <<>> /\ results = <<>> /\ all_passed = TRUE
    /\ stdout = <<>>

\* one more call of generate_job_xml(config); stdout collects what the calls return
DetGenerate ==
    /\ cmd = "generate_job_xml" /\ pc = "call"
    /\ Len(stdout) < MaxCalls
    /\ stdout' = Append(stdout, generate_job_xml_text(config, minidom_escapes_ws))
    /\ calls' = Append(calls, "generate_job_xml")
    /\ UNCHANGED <<cmd, pc, config, errors, xml_content, job_info, minidom_escapes_ws,
                   plugin, args, output_path, content, temp_path, fs, fs_before, log,
                   exit_code, vj_vars>>

NextDet == DetGenerate

SpecDet == InitDet /\ [][NextDet]_vars

(***************************************************************************)
(* list-job-targets.py: main                                               *)
(***************************************************************************)
EXIT_NO_TARGETS == 3

\* list-job-targets.py's validate_job_file(job_file): the messages it logs, none
\* when the file is valid
lt_validate_job_file(job_file) ==
    IF ~job_file.exists
      THEN << <<"Job file not found: ">> \o job_file.stem \o job_file.suffix >>
    ELSE IF Lower(job_file.suffix) # <<".", "w", "a", "j">>
      THEN << <<"Invalid job file extension: ">> \o job_file.stem \o job_file.suffix >>
    ELSE <<>>

\* the job files given to list-job-targets
ListFiles ==
    { f \in JobFiles : f.content.kind # "xml" }
    \cup { [exists |-> TRUE, stem |-> <<"job">>, suffix |-> <<".", "w", "a", "j">>,
            content |-> XmlFile(r)] :
            r \in FlagJobs \cup
                  { Elem("Job", <<>>,
                         << Elem("Project", << <<"path", <<"s.wsxp">> >> >>, <<>>),
                            Elem("Targets", <<>>, <<>>) >>),
                    Elem("Job", << <<"name", <<"j">> >> >>,
                         << Elem("Project", <<>>, <<>>),
                            Elem("Targets", <<>>,
                                 << Target(<< <<"name", <<"t">> >>,
                                              <<"build", FalseStr>> >>) >>) >>) } }

InitLT ==
    /\ cmd = "list-job-targets"
    /\ pc = "validate_job_file"
    /\ args \in [job_file : ListFiles, enabled : BOOLEAN, disabled : BOOLEAN,
                 detailed : BOOLEAN, simple : BOOLEAN, json : BOOLEAN]
    /\ job_dir = <<>>
    /\ job_root = NoRecord /\ results = <<>> /\ all_passed = TRUE /\ stdout = <<>>
    /\ log = <<>> /\ exit_code = Running
    /\ config = NoRecord /\ errors = <<>> /\ xml_content = NoRecord /\ job_info = NoRecord
    /\ minidom_escapes_ws = FALSE /\ plugin = WW
    /\ output_path = <<>> /\ content = <<>> /\ temp_path = <<>>
    /\ fs = <<>> /\ fs_before = <<>> /\ calls = <<>>

\* if not validate_job_file(args.job_file): return EXIT_FILE_ERROR
LTValidateFile ==
    /\ cmd = "list-job-targets" /\ pc = "validate_job_file"
    /\ LET messages == lt_validate_job_file(args.job_file)
       IN  IF messages # <<>>
             THEN log' = log \o messages /\ Exit(EXIT_FILE_ERROR)
             ELSE pc' = "parse_job_xml" /\ UNCHANGED <<log, exit_code>>
    /\ UNCHANGED <<job_root, job_info, stdout, not_pj_vars>>

\* root = parse_job_xml(args.job_file); if root is None: return EXIT_FILE_ERROR
LTParse ==
    /\ cmd = "list-job-targets" /\ pc = "parse_job_xml"
    /\ IF args.job_file.content.kind # "xml"
         THEN /\ log' = Append(log, <<"Failed to parse XML: ", "e">>)
              /\ Exit(EXIT_FILE_ERROR) /\ UNCHANGED job_root
         ELSE /\ job_root' = args.job_file.content.root
              /\ pc' = "extract_targets" /\ UNCHANGED <<log, exit_code>>
    /\ UNCHANGED <<job_info, stdout, not_pj_vars>>

\* the targets left by --enabled or --disabled
FilterTargets(targets, enabled, disabled) ==
    IF enabled THEN SelectSeq(targets, LAMBDA t : t.build)
    ELSE IF disabled THEN SelectSeq(targets, LAMBDA t : ~t.build)
    ELSE targets

\* the output function main calls
OutputFormat(a) ==
    IF a.json THEN "json" ELSE IF a.simple THEN "simple"
    ELSE IF a.detailed THEN "detailed" ELSE "table"

\* the job's name and stationery are read, the targets extracted, filtered and
\* printed
LTList ==
    /\ cmd = "list-job-targets" /\ pc = "extract_targets"
    /\ LET job_name == Attr(job_root, "name", <<"Unknown">>)
           stationery == IF HasChild(job_root, "Project")
                           THEN Attr(Find(job_root, "Project"), "path", EmptyStr)
                           ELSE EmptyStr
           targets == extract_targets(job_root)
           filtered == FilterTargets(targets, args.enabled, args.disabled)
       IN  IF targets = <<>>
             THEN /\ log' = Append(log, <<"No targets found in job file">>)
                  /\ Exit(EXIT_NO_TARGETS) /\ UNCHANGED stdout
           ELSE IF filtered = <<>>
             THEN /\ stdout' = << <<"No targets match the filter criteria">> >>
                  /\ Exit(EXIT_SUCCESS) /\ UNCHANGED log
           ELSE /\ stdout' = <<[format |-> OutputFormat(args), job_name |-> job_name,
                                stationery |-> stationery, targets |-> filtered]>>
                /\ Exit(EXIT_SUCCESS) /\ UNCHANGED log
    /\ UNCHANGED <<job_root, job_info, not_pj_vars>>

NextLT == LTValidateFile \/ LTParse \/ LTList

SpecLT == InitLT /\ [][NextLT]_vars

(***************************************************************************)
(* parse-stationery.py and create-job.py's parse_stationery: the readers   *)
(* of a Stationery file                                                    *)
(***************************************************************************)
EXIT_NO_FORMATS == 3
MaxConfigs == 2

\* the tag 'ep:tag' with ns = {'ep': 'urn:WebWorks-Publish-Project'}
Ns(tag) == "{urn:WebWorks-Publish-Project}" \o tag

\* root.findall('.//ep:tag', ns): the descendants of root with the tag in the
\* namespace, in document order
FindAllNs(root, tag) == SelectSeq(Tail(Iter(root)), LAMBDA e : e.tag = Ns(tag))

\* list(root.iter(tag)): root and its descendants with the bare tag
IterTag(root, tag) == SelectSeq(Iter(root), LAMBDA e : e.tag = tag)

\* found = root.findall('.//ep:tag', ns); if not found: found = list(root.iter(tag))
find_elements_any_ns(root, tag) ==
    IF FindAllNs(root, tag) # <<>> THEN FindAllNs(root, tag) ELSE IterTag(root, tag)

\* e.find('ep:tag', ns), and e.find(tag) when that is None: a list of one
\* element, or of none when both are None
find_any_ns(e, tag) ==
    IF HasChild(e, Ns(tag)) THEN <<Find(e, Ns(tag))>>
    ELSE IF HasChild(e, tag) THEN <<Find(e, tag)>>
    ELSE <<>>

\* e.findall('ep:tag', ns), and e.findall(tag) when that is empty
findall_any_ns(e, tag) ==
    IF FindAll(e, Ns(tag)) # <<>> THEN FindAll(e, Ns(tag)) ELSE FindAll(e, tag)

\* element.text or ''; the text of an element is kept under the name "#text"
\* among its attributes
Text(e) == Attr(e, "#text", EmptyStr)

\* extract_runtime_version(root)
extract_runtime_version(root) ==
    LET runtime_version == Attr(root, "RuntimeVersion", EmptyStr)
        format_version == Attr(root, "FormatVersion", EmptyStr)
    IN  IF format_version = <<"{Current}">> \/ format_version = EmptyStr
          THEN runtime_version
          ELSE format_version

\* the settings list built for one FormatConfiguration element
ConfigSettings(config_elem) ==
    LET format_settings == find_any_ns(config_elem, "FormatSettings")
        setting_elements ==
            IF format_settings = <<>> THEN <<>>
            ELSE findall_any_ns(format_settings[1], "FormatSetting")
    IN  [i \in 1..Len(setting_elements) |->
            [name |-> Attr(setting_elements[i], "Name", EmptyStr),
             defaultValue |-> Attr(setting_elements[i], "Value", EmptyStr)]]

\* a map in which the settings of equal TargetIDs are joined
SettingsMapAfter_Merged(format_configs, n) ==
    LET ids == {Attr(format_configs[i], "TargetID", EmptyStr) : i \in 1..n} \ {EmptyStr}
    IN  [id \in ids |->
            Concat([i \in 1..n |->
                      IF Attr(format_configs[i], "TargetID", EmptyStr) = id
                        THEN ConfigSettings(format_configs[i]) ELSE <<>>], 1)]

RECURSIVE SettingsMapAfter(_, _)
\* settings_map after the loop has run over the first n configurations:
\* if target_id: settings_map[target_id] = settings
SettingsMapAfter(format_configs, n) ==
    IF n = 0 THEN <<>>
    ELSE LET target_id == Attr(format_configs[n], "TargetID", EmptyStr)
             before == SettingsMapAfter(format_configs, n - 1)
         IN  IF target_id # EmptyStr
               THEN [id \in DOMAIN before \cup {target_id} |->
                        IF id = target_id THEN ConfigSettings(format_configs[n])
                        ELSE before[id]]
               ELSE before

\* settings_map
SettingsMap(root) ==
    LET format_configs == find_elements_any_ns(root, "FormatConfiguration")
    IN  SettingsMapAfter(format_configs, Len(format_configs))

\* settings_map.get(target_id, [])
SettingsOf(settings_map, target_id) ==
    IF target_id \in DOMAIN settings_map THEN settings_map[target_id] ELSE <<>>

\* parse-stationery.py: the dict extract_formats builds for one Format element
FormatInfo(format_elem, settings_map) ==
    LET target_id == Attr(format_elem, "TargetID", EmptyStr)
        targetName == Attr(format_elem, "TargetName", <<"Unknown">>)
        output_dir_elem == find_any_ns(format_elem, "OutputDirectory")
    IN  [name |-> Attr(format_elem, "Name", <<"Unknown">>),
         targetName |-> targetName,
         type |-> Attr(format_elem, "Type", <<"Unknown">>),
         targetId |-> target_id,
         outputDirectory |->
            IF output_dir_elem # <<>> /\ Text(output_dir_elem[1]) # EmptyStr
              THEN Text(output_dir_elem[1])
              ELSE <<"Output\\">> \o targetName,
         settings |-> SettingsOf(settings_map, target_id)]

\* parse-stationery.py: extract_formats(root)
extract_formats(root) ==
    LET format_elements == find_elements_any_ns(root, "Format")
    IN  [i \in 1..Len(format_elements) |-> FormatInfo(format_elements[i], SettingsMap(root))]

\* extract_file_mappings(root)
extract_file_mappings(root) ==
    LET mapping_elements == find_elements_any_ns(root, "FileMapping")
    IN  [i \in 1..Len(mapping_elements) |->
            [extension |-> Attr(mapping_elements[i], "extension", EmptyStr),
             adapter |-> Attr(mapping_elements[i], "adapter", EmptyStr)]]

\* validate_stationery_file(stationery_file): the messages it logs, none when
\* the file is valid
validate_stationery_file(stationery_file) ==
    IF ~stationery_file.exists
      THEN << <<"Stationery file not found: ">>
              \o stationery_file.stem \o stationery_file.suffix >>
    ELSE IF Lower(stationery_file.suffix) # <<".", "w", "x", "s", "p">>
      THEN << <<"Invalid stationery file extension: ">>
              \o stationery_file.stem \o stationery_file.suffix,
              <<"Expected: .wxsp">> >>
    ELSE <<>>

\* create-job.py: the formats parse_stationery builds
parse_stationery_formats(root) ==
    LET format_elements == find_elements_any_ns(root, "Format")
    IN  [i \in 1..Len(format_elements) |->
            [name |-> Attr(format_elements[i], "Name", EmptyStr),
             targetName |-> Attr(format_elements[i], "TargetName", EmptyStr),
             type |-> Attr(format_elements[i], "Type", EmptyStr),
             targetId |-> Attr(format_elements[i], "TargetID", EmptyStr),
             settings |-> SettingsOf(SettingsMap(root),
                                     Attr(format_elements[i], "TargetID", EmptyStr))]]

\* create-job.py: parse_stationery(stationery_path): the dict returned, or the
\* message logged when None is returned
parse_stationery(stationery_file) ==
    IF ~stationery_file.exists
      THEN [error |-> <<"Stationery file not found: ">>]
    ELSE IF stationery_file.content.kind = "malformed"
      THEN [error |-> <<"Failed to parse stationery XML: ">>]
    ELSE LET root == stationery_file.content.root
         IN  [path |-> stationery_file.stem \o stationery_file.suffix,
              runtimeVersion |-> Attr(root, "RuntimeVersion", EmptyStr),
              formats |-> parse_stationery_formats(root),
              fileMappings |-> extract_file_mappings(root)]

\* an element of a Stationery in the namespace or outside it
StatElem(qualified, tag, attrs, children) ==
    Elem(IF qualified THEN Ns(tag) ELSE tag, attrs, children)

\* the attribute lists of the Format elements of these Stationery files
StatFormatAttrs ==
    { <<>>,
      << <<"Name", <<"Alpha">> >>, <<"TargetName", <<"A">> >>, <<"Type", <<"Help">> >>,
         <<"TargetID", <<"1">> >> >>,
      << <<"Name", <<"Beta">> >>, <<"TargetID", <<"2">> >> >>,
      << <<"Name", <<"Gamma">> >>, <<"TargetID", EmptyStr>> >> }

\* the FormatSetting children of these Stationery files
SettingX(q) == StatElem(q, "FormatSetting", << <<"Name", <<"x">> >>, <<"Value", <<"1">> >> >>, <<>>)
SettingY(q) == StatElem(q, "FormatSetting", << <<"Name", <<"y">> >> >>, <<>>)
SettingZ(q) == StatElem(q, "FormatSetting", << <<"Name", <<"z">> >>, <<"Value", <<"3">> >> >>, <<>>)

\* the FormatConfiguration elements of these Stationery files: a TargetID or
\* none, with a FormatSettings child or none
StatConfigs(q) ==
    { StatElem(q, "FormatConfiguration", << <<"TargetID", <<"1">> >> >>,
               << StatElem(q, "FormatSettings", <<>>, <<SettingX(q)>>) >>),
      StatElem(q, "FormatConfiguration", << <<"TargetID", <<"1">> >> >>,
               << StatElem(q, "FormatSettings", <<>>, <<SettingY(q), SettingZ(q)>>) >>),
      StatElem(q, "FormatConfiguration", << <<"TargetID", <<"1">> >> >>, <<>>),
      StatElem(q, "FormatConfiguration", << <<"TargetID", <<"2">> >> >>,
               << StatElem(q, "FormatSettings", <<>>, <<SettingZ(q)>>) >>),
      StatElem(q, "FormatConfiguration", <<>>,
               << StatElem(q, "FormatSettings", <<>>, <<SettingX(q)>>) >>) }

\* the attribute lists of the root of these Stationery files
StatRootAttrs ==
    { <<>>,
      << <<"RuntimeVersion", <<"2024.1">> >>, <<"FormatVersion", <<"{Current}">> >> >>,
      << <<"RuntimeVersion", <<"2024.1">> >>, <<"FormatVersion", <<"2020.2">> >> >> }

\* Stationery files in which the namespace is used here and not there
MixedRoots ==
    { \* a bare and a namespaced Format next to each other
      Elem("Project", <<>>,
           << Elem("Format", << <<"Name", <<"Alpha">> >> >>, <<>>),
              Elem(Ns("Format"), << <<"Name", <<"Beta">> >> >>, <<>>) >>),
      \* the root is itself a Format, in the namespace or outside it
      Elem(Ns("Format"), << <<"Name", <<"Alpha">> >>, <<"TargetID", <<"1">> >> >>, <<>>),
      Elem("Format", << <<"Name", <<"Alpha">> >>, <<"TargetID", <<"1">> >> >>,
           << Elem("Format", << <<"Name", <<"Beta">> >> >>, <<>>) >>),
      Elem(Ns("Format"), << <<"Name", <<"Alpha">> >> >>,
           << Elem("Format", << <<"Name", <<"Beta">> >> >>, <<>>) >>),
      \* a namespaced Format whose configuration is bare, with both kinds of
      \* FormatSettings and of FormatSetting, an output directory and file mappings
      Elem(Ns("Project"), <<>>,
           << Elem(Ns("Format"), << <<"Name", <<"Alpha">> >>, <<"TargetID", <<"1">> >> >>,
                   << Elem("OutputDirectory", << <<"#text", <<"out">> >> >>, <<>>) >>),
              Elem(Ns("Format"), << <<"Name", <<"Beta">> >>, <<"TargetID", <<"2">> >> >>,
                   << Elem(Ns("OutputDirectory"), <<>>, <<>>) >>),
              Elem("FormatConfiguration", << <<"TargetID", <<"1">> >> >>,
                   << Elem("FormatSettings", <<>>, <<SettingX(FALSE)>>),
                      Elem(Ns("FormatSettings"), <<>>, <<SettingY(FALSE), SettingZ(TRUE)>>) >>),
              Elem(Ns("FileMapping"), << <<"extension", <<".md">> >>,
                                        <<"adapter", <<"Markdown">> >> >>, <<>>),
              Elem("FileMapping", << <<"extension", <<".fm">> >> >>, <<>>) >>) }

\* a Stationery with these formats and configurations, all in the namespace or
\* all outside it
StatDoc(q, formats, configs) ==
    StatElem(q, "Project", <<>>,
             << StatElem(q, "Formats", <<>>,
                         [i \in 1..Len(formats) |-> StatElem(q, "Format", formats[i], <<>>)]),
                StatElem(q, "FormatConfigurations", <<>>, configs) >>)

\* one format of each kind
AllFormatAttrs ==
    << << <<"Name", <<"Alpha">> >>, <<"TargetName", <<"A">> >>, <<"Type", <<"Help">> >>,
          <<"TargetID", <<"1">> >> >>,
       << <<"Name", <<"Beta">> >>, <<"TargetID", <<"2">> >> >>,
       << <<"Name", <<"Gamma">> >>, <<"TargetID", EmptyStr>> >>,
       <<>> >>

\* configurations of which two share a TargetID and one has none
SomeConfigs(q) ==
    << StatElem(q, "FormatConfiguration", << <<"TargetID", <<"1">> >> >>,
                << StatElem(q, "FormatSettings", <<>>, <<SettingX(q)>>) >>),
       StatElem(q, "FormatConfiguration", <<>>,
                << StatElem(q, "FormatSettings", <<>>, <<SettingY(q)>>) >>),
       StatElem(q, "FormatConfiguration", << <<"TargetID", <<"1">> >> >>,
                << StatElem(q, "FormatSettings", <<>>, <<SettingZ(q)>>) >>) >>

\* the attribute lists of the root of the files whose versions are read
VersionAttrs ==
    { r \o f : r \in { <<>>, << <<"RuntimeVersion", EmptyStr>> >>,
                       << <<"RuntimeVersion", <<"2024.1">> >> >> },
               f \in { <<>>, << <<"FormatVersion", EmptyStr>> >>,
                       << <<"FormatVersion", <<"{Current}">> >> >>,
                       << <<"FormatVersion", <<"{current}">> >> >>,
                       << <<"FormatVersion", <<"2020.2">> >> >> } }

\* the roots of these files: one format, in the namespace or outside it
VersionRoots ==
    { StatElem(q, "Project", attrs,
               << StatElem(q, "Format", << <<"Name", <<"Alpha">> >>,
                                           <<"TargetName", <<"A">> >> >>, <<>>) >>) :
        q \in BOOLEAN, attrs \in VersionAttrs }

\* the roots of these Stationery files: the formats vary or the configurations do
StatRoots ==
    UNION { { StatDoc(q, formats, SomeConfigs(q)) :
                formats \in SeqsUpTo(StatFormatAttrs, MaxFormats) }
            \cup { StatDoc(q, AllFormatAttrs, configs) :
                     configs \in SeqsUpTo(StatConfigs(q), MaxConfigs) } : q \in BOOLEAN }
    \cup { Elem("Project", attrs, <<>>) : attrs \in StatRootAttrs }
    \cup VersionRoots
    \cup MixedRoots

\* the Stationery files: missing, with another extension, not well-formed,
\* well-formed
StatFiles ==
    { [exists |-> FALSE, stem |-> <<"s">>, suffix |-> <<".", "w", "x", "s", "p">>,
       content |-> Missing],
      [exists |-> TRUE, stem |-> <<"s">>, suffix |-> <<".", "x", "m", "l">>,
       content |-> MalformedFile],
      [exists |-> TRUE, stem |-> <<"s">>, suffix |-> <<".", "W", "X", "S", "P">>,
       content |-> MalformedFile] }
    \cup { [exists |-> TRUE, stem |-> <<"s">>, suffix |-> <<".", "w", "x", "s", "p">>,
            content |-> XmlFile(r)] : r \in StatRoots }

InitPS ==
    /\ cmd \in {"parse-stationery", "parse_stationery"}
    /\ pc = IF cmd = "parse-stationery" THEN "validate_stationery_file" ELSE "call"
    /\ args \in [stationery_file : StatFiles, json : BOOLEAN, verbose : BOOLEAN]
    /\ cmd = "parse_stationery" => ~args.json /\ ~args.verbose
    /\ job_dir = <<>>
    /\ job_root = NoRecord /\ results = <<>> /\ all_passed = TRUE /\ stdout = <<>>
    /\ log = <<>> /\ exit_code = Running
    /\ config = NoRecord /\ errors = <<>> /\ xml_content = NoRecord /\ job_info = NoRecord
    /\ minidom_escapes_ws = FALSE /\ plugin = WW
    /\ output_path = <<>> /\ content = <<>> /\ temp_path = <<>>
    /\ fs = <<>> /\ fs_before = <<>> /\ calls = <<>>

\* if not validate_stationery_file(args.stationery_file): return EXIT_FILE_ERROR
PSValidateFile ==
    /\ cmd = "parse-stationery" /\ pc = "validate_stationery_file"
    /\ LET messages == validate_stationery_file(args.stationery_file)
       IN  IF messages # <<>>
             THEN log' = log \o messages /\ Exit(EXIT_FILE_ERROR)
             ELSE /\ log' = log \o log_verbose(<<"Parsing stationery file: ">>, args.verbose)
                  /\ pc' = "parse_stationery_xml" /\ UNCHANGED exit_code
    /\ UNCHANGED <<job_root, job_info, stdout, not_pj_vars>>

\* root = parse_stationery_xml(args.stationery_file)
\* if root is None: return EXIT_FILE_ERROR
PSParse ==
    /\ cmd = "parse-stationery" /\ pc = "parse_stationery_xml"
    /\ IF args.stationery_file.content.kind # "xml"
         THEN /\ log' = Append(log, <<"Failed to parse XML: ", "e">>)
              /\ Exit(EXIT_FILE_ERROR) /\ UNCHANGED job_root
         ELSE /\ job_root' = args.stationery_file.content.root
              /\ pc' = "extract_formats" /\ UNCHANGED <<log, exit_code>>
    /\ UNCHANGED <<job_info, stdout, not_pj_vars>>

\* runtime_version = extract_runtime_version(root); formats = extract_formats(root)
\* if not formats: return EXIT_NO_FORMATS
PSExtract ==
    /\ cmd = "parse-stationery" /\ pc = "extract_formats"
    /\ LET runtime_version == extract_runtime_version(job_root)
           formats == extract_formats(job_root)
           found == log_verbose(<<"Runtime version: ">> \o runtime_version, args.verbose)
                    \o log_verbose(<<"Found ", ToString(Len(formats)), " format elements">>,
                                   args.verbose)
       IN  IF formats = <<>>
             THEN /\ log' = log \o found
                            \o << <<"No formats found in stationery file">> >>
                  /\ Exit(EXIT_NO_FORMATS) /\ UNCHANGED job_info
             ELSE /\ job_info' = [runtimeVersion |-> runtime_version, formats |-> formats]
                  /\ log' = log \o found
                            \o log_verbose(<<"Found ", ToString(Len(formats)), " formats">>,
                                           args.verbose)
                  /\ pc' = "output" /\ UNCHANGED exit_code
    /\ UNCHANGED <<job_root, stdout, not_pj_vars>>

\* mappings = extract_file_mappings(root); output_json or output_human_readable
PSOutput ==
    /\ cmd = "parse-stationery" /\ pc = "output"
    /\ LET mappings == extract_file_mappings(job_root)
       IN  /\ log' = log \o log_verbose(<<"Found ", ToString(Len(mappings)),
                                          " file mappings">>, args.verbose)
           /\ stdout' = <<[format |-> IF args.json THEN "json" ELSE "text",
                           path |-> args.stationery_file.stem \o args.stationery_file.suffix,
                           runtimeVersion |-> job_info.runtimeVersion,
                           formats |-> job_info.formats,
                           fileMappings |-> mappings]>>
    /\ Exit(EXIT_SUCCESS)
    /\ UNCHANGED <<job_root, job_info, not_pj_vars>>

\* create-job.py: stationery = parse_stationery(stationery_path)
CJParseStationery ==
    /\ cmd = "parse_stationery" /\ pc = "call"
    /\ LET stationery == parse_stationery(args.stationery_file)
       IN  IF "error" \in DOMAIN stationery
             THEN log' = Append(log, stationery.error) /\ UNCHANGED <<job_root, job_info>>
             ELSE /\ job_root' = args.stationery_file.content.root
                  /\ job_info' = stationery
                  /\ UNCHANGED log
    /\ pc' = "returned"
    /\ UNCHANGED <<exit_code, stdout, not_pj_vars>>

NextPS == PSValidateFile \/ PSParse \/ PSExtract \/ PSOutput \/ CJParseStationery

SpecPS == InitPS /\ [][NextPS]_vars

(***************************************************************************)
(* The commands of the family, each run by its main                        *)
(***************************************************************************)
InitFamily == InitPJ \/ InitVJ \/ InitLT \/ InitPS \/ InitCJ

NextFamily == NextPJ \/ NextVJ \/ NextLT \/ NextPS \/ NextCJ

SpecFamily == InitFamily /\ [][NextFamily]_vars

(***************************************************************************)
(* parse-targets.py: main                                                  *)
(***************************************************************************)
\* validate_project_file(project_file): the messages it logs, none when the
\* file is valid
validate_project_file(project_file) ==
    IF ~project_file.exists
      THEN << <<"Project file not found: ">> \o project_file.stem \o project_file.suffix >>
    ELSE IF Lower(project_file.suffix) \notin
                {<<".", "w", "e", "p">>, <<".", "w", "r", "p">>, <<".", "w", "x", "s", "p">>}
      THEN << <<"Invalid project file extension: ">>
              \o project_file.stem \o project_file.suffix,
              <<"Expected: .wep or .wrp or .wxsp">> >>
    ELSE <<>>

\* parse-targets.py: the dict extract_targets builds for one Format element
ProjectTarget(format_elem) ==
    LET targetName == Attr(format_elem, "TargetName", <<"Unknown">>)
        output_dir_elem == find_any_ns(format_elem, "OutputDirectory")
    IN  [targetName |-> targetName,
         formatName |-> Attr(format_elem, "Name", <<"Unknown">>),
         type |-> Attr(format_elem, "Type", <<"Unknown">>),
         targetId |-> Attr(format_elem, "TargetID", <<"Unknown">>),
         outputDirectory |->
            IF output_dir_elem # <<>> /\ Text(output_dir_elem[1]) # EmptyStr
              THEN Text(output_dir_elem[1])
              ELSE <<"Output\\">> \o targetName]

\* parse-targets.py: extract_targets(root)
extract_project_targets(root) ==
    LET format_elements == find_elements_any_ns(root, "Format")
    IN  [i \in 1..Len(format_elements) |-> ProjectTarget(format_elements[i])]

\* extract_base_format_version(root): the version, or the message logged when
\* None is returned
extract_base_format_version(root) ==
    LET runtime_version == Attr(root, "RuntimeVersion", EmptyStr)
        format_version == Attr(root, "FormatVersion", EmptyStr)
    IN  IF runtime_version = EmptyStr
          THEN [error |-> <<"RuntimeVersion not found in project file">>]
        ELSE IF format_version = <<"{Current}">> \/ format_version = EmptyStr
          THEN [version |-> runtime_version]
        ELSE [version |-> format_version]

\* the project files: missing, with another extension, not well-formed,
\* well-formed
ProjectFiles ==
    { [exists |-> FALSE, stem |-> <<"p">>, suffix |-> <<".", "w", "e", "p">>,
       content |-> Missing],
      [exists |-> TRUE, stem |-> <<"p">>, suffix |-> <<".", "w", "a", "j">>,
       content |-> MalformedFile],
      [exists |-> TRUE, stem |-> <<"p">>, suffix |-> <<".", "W", "R", "P">>,
       content |-> MalformedFile] }
    \cup { [exists |-> TRUE, stem |-> <<"p">>, suffix |-> s, content |-> XmlFile(r)] :
            s \in {<<".", "w", "e", "p">>},
            r \in {t \in StatRoots : t.children = <<>> \/ t.children[1].tag # "Formats"} }

InitPT ==
    /\ cmd = "parse-targets"
    /\ pc = "validate_project_file"
    /\ args \in [project_file : ProjectFiles, list : BOOLEAN, format_names : BOOLEAN,
                 show_version : BOOLEAN, validate : {EmptyStr, <<"A">>, <<"Zeta">>},
                 json : BOOLEAN, verbose : BOOLEAN]
    /\ job_dir = <<>>
    /\ job_root = NoRecord /\ results = <<>> /\ all_passed = TRUE /\ stdout = <<>>
    /\ log = <<>> /\ exit_code = Running
    /\ config = NoRecord /\ errors = <<>> /\ xml_content = NoRecord /\ job_info = NoRecord
    /\ minidom_escapes_ws = FALSE /\ plugin = WW
    /\ output_path = <<>> /\ content = <<>> /\ temp_path = <<>>
    /\ fs = <<>> /\ fs_before = <<>> /\ calls = <<>>

\* if not validate_project_file(args.project_file): return EXIT_FILE_ERROR
PTValidateFile ==
    /\ cmd = "parse-targets" /\ pc = "validate_project_file"
    /\ LET messages == validate_project_file(args.project_file)
       IN  IF messages # <<>>
             THEN log' = log \o messages /\ Exit(EXIT_FILE_ERROR)
             ELSE /\ log' = log \o log_verbose(<<"Parsing project file: ">>, args.verbose)
                  /\ pc' = "parse_project_xml" /\ UNCHANGED exit_code
    /\ UNCHANGED <<job_root, job_info, stdout, not_pj_vars>>

\* root = parse_project_xml(args.project_file); if root is None: return EXIT_FILE_ERROR
PTParse ==
    /\ cmd = "parse-targets" /\ pc = "parse_project_xml"
    /\ IF args.project_file.content.kind # "xml"
         THEN /\ log' = Append(log, <<"Failed to parse XML: ", "e">>)
              /\ Exit(EXIT_FILE_ERROR) /\ UNCHANGED job_root
         ELSE /\ job_root' = args.project_file.content.root
              /\ pc' = IF args.show_version THEN "version" ELSE "extract_targets"
              /\ UNCHANGED <<log, exit_code>>
    /\ UNCHANGED <<job_info, stdout, not_pj_vars>>

\* if args.show_version: the version is printed, or 3 is returned without one
PTVersion ==
    /\ cmd = "parse-targets" /\ pc = "version"
    /\ LET version == extract_base_format_version(job_root)
       IN  IF "error" \in DOMAIN version
             THEN /\ log' = Append(log, version.error)
                  /\ Exit(EXIT_NO_TARGETS) /\ UNCHANGED stdout
             ELSE /\ stdout' = <<version.version>>
                  /\ Exit(EXIT_SUCCESS) /\ UNCHANGED log
    /\ UNCHANGED <<job_root, job_info, not_pj_vars>>

\* validate_target(targets, target_name): what it prints
validate_target(targets, target_name) ==
    IF \E i \in DOMAIN targets : targets[i].targetName = target_name
      THEN << <<"Target found: ">> \o target_name >>
      ELSE << <<"Target not found: ">> \o target_name, <<"Available targets:">> >>
           \o [i \in DOMAIN targets |-> <<"  - ">> \o targets[i].targetName]

\* the targets are extracted, then validated or printed
PTList ==
    /\ cmd = "parse-targets" /\ pc = "extract_targets"
    /\ LET targets == extract_project_targets(job_root)
           found == log_verbose(<<"Found ", ToString(Len(targets)), " targets">>, args.verbose)
       IN  IF targets = <<>>
             THEN /\ log' = Append(log, <<"No targets found in project file">>)
                  /\ Exit(EXIT_NO_TARGETS) /\ UNCHANGED stdout
           ELSE IF args.validate # EmptyStr
             THEN /\ log' = log \o found
                            \o log_verbose(<<"Validating target: ">> \o args.validate,
                                           args.verbose)
                  /\ stdout' = validate_target(targets, args.validate)
                  /\ Exit(IF \E i \in DOMAIN targets : targets[i].targetName = args.validate
                            THEN EXIT_SUCCESS ELSE EXIT_FILE_ERROR)
           ELSE /\ log' = log \o found
                /\ stdout' =
                      IF args.json THEN <<[format |-> "json", targets |-> targets]>>
                      ELSE IF args.list THEN <<[format |-> "detailed", targets |-> targets]>>
                      ELSE IF args.format_names
                        THEN [i \in DOMAIN targets |-> targets[i].formatName]
                      ELSE [i \in DOMAIN targets |-> targets[i].targetName]
                /\ Exit(EXIT_SUCCESS)
    /\ UNCHANGED <<job_root, job_info, not_pj_vars>>

NextPT == PTValidateFile \/ PTParse \/ PTVersion \/ PTList

SpecPT == InitPT /\ [][NextPT]_vars

(***************************************************************************)
(* create-job.py: template mode                                            *)
(***************************************************************************)
\* generate_template(stationery_data, stationery_path)
generate_template(stationery_data, stationery_path) ==
    [name |-> <<"my-job">>,
     stationery |-> stationery_path,
     groups |-> <<[name |-> <<"Main">>,
                   documents |-> << <<"Source\\document1.md">>,
                                    <<"Source\\document2.md">> >>]>>,
     targets |-> [i \in DOMAIN stationery_data.formats |->
                     [name |-> stationery_data.formats[i].targetName,
                      format |-> stationery_data.formats[i].name,
                      formatType |-> stationery_data.formats[i].type,
                      build |-> TRUE, cleanOutput |-> FALSE, deployTarget |-> EmptyStr,
                      conditions |-> <<>>, variables |-> <<>>, settings |-> <<>>]]]

InitTemplate ==
    /\ cmd = "create-job --template"
    /\ pc = "main"
    /\ \E given \in BOOLEAN, file \in StatFiles :
            args = [template |-> TRUE, stationery |-> given, stationery_file |-> file]
    /\ job_dir = <<>>
    /\ job_root = NoRecord /\ results = <<>> /\ all_passed = TRUE /\ stdout = <<>>
    /\ log = <<>> /\ exit_code = Running
    /\ config = NoRecord /\ errors = <<>> /\ xml_content = NoRecord /\ job_info = NoRecord
    /\ minidom_escapes_ws = FALSE /\ plugin = WW
    /\ output_path = <<>> /\ content = <<>> /\ temp_path = <<>>
    /\ fs = <<>> /\ fs_before = <<>> /\ calls = <<>>

\* if args.template: the stationery is parsed and the template printed
CJTemplate ==
    /\ cmd = "create-job --template" /\ pc = "main"
    /\ IF ~args.stationery
         THEN /\ log' = Append(log, <<"--stationery is required with --template">>)
              /\ Exit(EXIT_ARG_ERROR) /\ UNCHANGED <<job_root, job_info, stdout>>
       ELSE LET stationery_data == parse_stationery(args.stationery_file)
            IN  IF "error" \in DOMAIN stationery_data
                  THEN /\ log' = Append(log, stationery_data.error)
                       /\ Exit(EXIT_FILE_ERROR) /\ UNCHANGED <<job_root, job_info, stdout>>
                  ELSE /\ job_root' = args.stationery_file.content.root
                       /\ job_info' = stationery_data
                       /\ stdout' = <<generate_template(
                                        stationery_data,
                                        args.stationery_file.stem
                                            \o args.stationery_file.suffix)>>
                       /\ Exit(EXIT_SUCCESS) /\ UNCHANGED log
    /\ UNCHANGED not_pj_vars

(***************************************************************************)
(* The commands that read a Stationery or project file                     *)
(***************************************************************************)
InitReaders == InitPS \/ InitPT \/ InitTemplate

NextReaders == NextPS \/ NextPT \/ CJTemplate

SpecReaders == InitReaders /\ [][NextReaders]_vars

(***************************************************************************)
(* create-job.py: interactive_collect_targets                              *)
(***************************************************************************)
MaxCollected == 2
MaxRefused == 2

Digits == {"0", "1", "2", "3", "4", "5", "6", "7", "8", "9"}

\* choice.isdigit()
isdigit(s) == s # <<>> /\ \A i \in 1..Len(s) : s[i] \in Digits

\* int(choice) of a string of digits
int(s) ==
    LET value(c) == CHOOSE n \in 0..9 : ToString(n) = c
        RECURSIVE upto(_)
        upto(k) == IF k = 0 THEN 0 ELSE 10 * upto(k - 1) + value(s[k])
    IN  upto(Len(s))

\* str.lower(), chunk by chunk
lower(s) ==
    LET low(c) == CASE c \in {"Alpha", "ALPHA"} -> "alpha"
                    [] c \in {"Beta", "BETA"} -> "beta"
                    [] c = "Gamma" -> "gamma"
                    [] c = "Zeta" -> "zeta"
                    [] OTHER -> c
    IN  [i \in 1..Len(s) |-> low(s[i])]

\* str.strip(): the leading and trailing whitespace is removed
Strip(s) ==
    LET inked == {i \in 1..Len(s) : s[i] \notin Whitespace}
    IN  IF inked = {} THEN <<>>
        ELSE SubSeq(s, CHOOSE i \in inked : \A j \in inked : i <= j,
                       CHOOSE i \in inked : \A j \in inked : j <= i)

\* a selection that takes an unknown name for a format of that name
SelectedFormat_Typed(available_formats, choice) ==
    IF isdigit(choice)
      THEN LET idx == int(choice) - 1
           IN  IF 0 <= idx /\ idx < Len(available_formats)
                 THEN <<available_formats[idx + 1]>> ELSE <<>>
      ELSE LET named == SelectSeq(available_formats,
                                  LAMBDA fmt : lower(fmt.name) = lower(choice))
           IN  IF named = <<>>
                 THEN <<[name |-> choice, targetName |-> choice, type |-> EmptyStr,
                         targetId |-> EmptyStr, settings |-> <<>>]>>
                 ELSE <<named[1]>>

\* the format selected by a non-blank choice: a list of one format, or of none
\* when the number is out of range or no format has that name
SelectedFormat(available_formats, choice) ==
    IF isdigit(choice)
      THEN LET idx == int(choice) - 1
           IN  IF 0 <= idx /\ idx < Len(available_formats)
                 THEN <<available_formats[idx + 1]>> ELSE <<>>
      ELSE LET named == SelectSeq(available_formats,
                                  LAMBDA fmt : lower(fmt.name) = lower(choice))
           IN  IF named = <<>> THEN <<>> ELSE <<named[1]>>

\* the entries added for the lines typed at an override prompt: a line with
\* no '=' is ignored, the others are split at their first '=' and stripped
OverrideEntries(lines) ==
    LET first(l) == CHOOSE k \in 1..Len(l) : l[k] = "=" /\ \A j \in 1..(k - 1) : l[j] # "="
        entry(l) == [name |-> Strip(SubSeq(l, 1, first(l) - 1)),
                     value |-> Strip(SubSeq(l, first(l) + 1, Len(l)))]
        typed == SelectSeq(lines, LAMBDA l : \E k \in 1..Len(l) : l[k] = "=")
    IN  [i \in 1..Len(typed) |-> entry(typed[i])]

\* the target built from the selected format and the operator's answers
CollectedTarget(selected_format, answers) ==
    [name |-> selected_format.targetName,
     format |-> selected_format.name,
     formatType |-> selected_format.type,
     build |-> answers.build,
     cleanOutput |-> answers.cleanOutput,
     deployTarget |-> answers.deployTarget,
     conditions |-> IF "c" \in answers.override_choice
                      THEN OverrideEntries(answers.lines) ELSE <<>>,
     variables |-> IF "v" \in answers.override_choice
                     THEN OverrideEntries(answers.lines) ELSE <<>>,
     settings |-> IF "s" \in answers.override_choice
                    THEN OverrideEntries(answers.lines) ELSE <<>>]

\* what the operator types at the format prompt
Choices ==
    {EmptyStr, <<"0">>, <<"1">>, <<"2">>, <<"1", "0">>, <<"alpha">>, <<"BETA">>, <<"Zeta">>}

\* what the operator answers for a target: the flags, the deploy target, the
\* kinds of overrides (a set of letters) and the lines typed for them
TargetAnswers ==
    {[build |-> TRUE, cleanOutput |-> FALSE, deployTarget |-> EmptyStr,
      override_choice |-> {"n"}, lines |-> <<>>],
     [build |-> FALSE, cleanOutput |-> TRUE, deployTarget |-> <<"d">>,
      override_choice |-> {"c", "s"},
      lines |-> << <<" ", "k", " ", "=", "v", "=", "w">>, <<"k">> >>]}

\* the parsed Stationery files the loop is run on: four formats of which one
\* has no name, one format, no format
ParsedStationeries ==
    {parse_stationery([exists |-> TRUE, stem |-> <<"s">>,
                       suffix |-> <<".", "w", "x", "s", "p">>, content |-> XmlFile(r)]) :
        r \in {StatDoc(FALSE, AllFormatAttrs, SomeConfigs(FALSE)),
               StatDoc(TRUE, <<AllFormatAttrs[1]>>, <<>>),
               Elem("Project", <<>>, <<>>)}}

InitICT ==
    /\ cmd = "interactive_collect_targets"
    /\ pc = "prompt"
    /\ job_info \in ParsedStationeries
    /\ results = <<>> /\ log = <<>>
    /\ plugin = WW
    /\ job_root = NoRecord /\ job_dir = <<>> /\ all_passed = TRUE /\ stdout = <<>>
    /\ exit_code = Running /\ args = NoRecord
    /\ config = NoRecord /\ errors = <<>> /\ xml_content = NoRecord
    /\ minidom_escapes_ws = FALSE
    /\ output_path = <<>> /\ content = <<>> /\ temp_path = <<>>
    /\ fs = <<>> /\ fs_before = <<>> /\ calls = <<>>

\* one turn of the while loop: the choice is read, refused or followed by the
\* questions about the target, which is appended
ICTLoop ==
    /\ cmd = "interactive_collect_targets" /\ pc = "prompt"
    /\ \E choice \in Choices :
        LET targets == results
            selected_format == SelectedFormat(job_info.formats, choice)
        IN  IF choice = EmptyStr
              THEN IF targets = <<>>
                     THEN /\ Len(log) < MaxRefused
                          /\ log' = Append(log, <<"At least one target is required.">>)
                          /\ UNCHANGED <<pc, results>>
                     ELSE pc' = "returned" /\ UNCHANGED <<log, results>>
            ELSE IF selected_format = <<>>
              THEN /\ Len(log) < MaxRefused
                   /\ log' = Append(log, <<"Format not found: ">> \o choice)
                   /\ UNCHANGED <<pc, results>>
            ELSE \E answers \in TargetAnswers, another \in BOOLEAN :
                   /\ Len(targets) < MaxCollected
                   /\ results' = Append(targets, CollectedTarget(selected_format[1], answers))
                   /\ pc' = IF another THEN "prompt" ELSE "returned"
                   /\ UNCHANGED log
    /\ UNCHANGED <<cmd, config, errors, xml_content, job_info, minidom_escapes_ws, plugin, args,
                   output_path, content, temp_path, fs, fs_before, calls, exit_code, job_root,
                   job_dir, all_passed, stdout>>

NextICT == ICTLoop

SpecICT == InitICT /\ [][NextICT]_vars

(***************************************************************************)
(* Read, serialize, read: extract_job_info on a job file, output_config,   *)
(* generate_job_xml on the configuration printed, extract_job_info again   *)
(***************************************************************************)
\* the roots of the job files read: those of the validated files and those
\* generated for the configurations
ReadRoots == JobRoots \cup {JobElem(c) : c \in Configs}

InitRSR ==
    /\ cmd = "read-serialize-read"
    /\ pc = "start"
    /\ job_root \in ReadRoots
    /\ minidom_escapes_ws \in BOOLEAN
    /\ job_info = NoRecord /\ config = NoRecord /\ xml_content = NoRecord /\ stdout = <<>>
    /\ errors = <<>> /\ plugin = None /\ args = NoRecord /\ output_path = <<>>
    /\ content = <<>> /\ temp_path = <<>> /\ fs = <<>> /\ fs_before = <<>> /\ log = <<>>
    /\ calls = <<>> /\ exit_code = Running
    /\ job_dir = <<>> /\ results = <<>> /\ all_passed = TRUE

\* parse-job --config: job_info = extract_job_info(root, job_file); output_config(job_info)
RSRExport ==
    /\ cmd = "read-serialize-read" /\ pc = "start"
    /\ job_info' = extract_job_info(job_root, {})
    /\ config' = output_config(job_info')
    /\ pc' = "exported"
    /\ UNCHANGED <<cmd, job_root, minidom_escapes_ws, xml_content, stdout, errors, plugin, args,
                   output_path, content, temp_path, fs, fs_before, log, calls, exit_code,
                   job_dir, results, all_passed>>

\* create-job --config: xml_content = generate_job_xml(config)
RSRGenerate ==
    /\ cmd = "read-serialize-read" /\ pc = "exported"
    /\ xml_content' = generate_job_xml(config, minidom_escapes_ws)
    /\ pc' = "generated"
    /\ UNCHANGED <<cmd, job_root, minidom_escapes_ws, job_info, config, stdout, errors, plugin,
                   args, output_path, content, temp_path, fs, fs_before, log, calls, exit_code,
                   job_dir, results, all_passed>>

\* parse-job --config on the file generated
RSRReadBack ==
    /\ cmd = "read-serialize-read" /\ pc = "generated"
    /\ stdout' = <<output_config(extract_job_info(ParseXml(xml_content.doc), {}))>>
    /\ pc' = "read back"
    /\ UNCHANGED <<cmd, job_root, minidom_escapes_ws, job_info, config, xml_content, errors,
                   plugin, args, output_path, content, temp_path, fs, fs_before, log, calls,
                   exit_code, job_dir, results, all_passed>>

NextRSR == RSRExport \/ RSRGenerate \/ RSRReadBack

SpecRSR == InitRSR /\ [][NextRSR]_vars

(***************************************************************************)
(* sanitize_filename on names of up to MaxName characters, applied again   *)
(* to its own result                                                       *)
(***************************************************************************)
MaxName == 3

\* the characters of these names: word characters, the dot and the dash, the
\* separators, a blank and an ampersand
NameChars == {"a", "0", "_", ".", "-", "/", "\\", " ", "&"}

InitSan ==
    /\ cmd = "sanitize_filename"
    /\ pc = "call"
    /\ \E name \in SeqsUpTo(NameChars, MaxName) : args = [name |-> name]
    /\ stdout = <<>>
    /\ job_root = NoRecord /\ job_dir = <<>> /\ results = <<>> /\ all_passed = TRUE
    /\ log = <<>> /\ exit_code = Running
    /\ config = NoRecord /\ errors = <<>> /\ xml_content = NoRecord /\ job_info = NoRecord
    /\ minidom_escapes_ws = FALSE /\ plugin = WW
    /\ output_path = <<>> /\ content = <<>> /\ temp_path = <<>>
    /\ fs = <<>> /\ fs_before = <<>> /\ calls = <<>>

\* sanitize_filename(name), then sanitize_filename of the result
SanCall ==
    /\ cmd = "sanitize_filename" /\ pc = "call" /\ Len(stdout) < MaxCalls
    /\ stdout' = Append(stdout, sanitize_filename(IF stdout = <<>> THEN args.name
                                                  ELSE stdout[Len(stdout)]))
    /\ UNCHANGED <<cmd, pc, args, job_root, job_dir, results, all_passed, log, exit_code,
                   config, errors, xml_content, job_info, minidom_escapes_ws, plugin,
                   output_path, content, temp_path, fs, fs_before, calls>>

NextSan == SanCall

SpecSan == InitSan /\ [][NextSan]_vars

(***************************************************************************)
(* Claims                                                                  *)
(***************************************************************************)
\* the name/value pairs of a list of the configuration
NameValuesOf(l) ==
    [i \in 1..Len(l) |->
        [name |-> Get(l[i], "name", EmptyStr), value |-> Get(l[i], "value", EmptyStr)]]

SameGroups(info, c) ==
    LET groups == Get(c, "groups", <<>>)
    IN  /\ Len(info.groups) = Len(groups)
        /\ \A i \in 1..Len(groups) :
            /\ info.groups[i].name = Get(groups[i], "name", EmptyStr)
            /\ info.groups[i].documents = Get(groups[i], "documents", <<>>)

SameTargets(info, c) ==
    LET targets == Get(c, "targets", <<>>)
    IN  /\ Len(info.targets) = Len(targets)
        /\ \A i \in 1..Len(targets) :
            LET t == targets[i]
                r == info.targets[i]
            IN  /\ r.name = Get(t, "name", EmptyStr)
                /\ r.format = Get(t, "format", EmptyStr)
                /\ r.formatType = Get(t, "formatType", <<"Application">>)
                /\ r.deployTarget = Get(t, "deployTarget", EmptyStr)
                /\ r.build = Get(t, "build", TRUE)
                /\ r.cleanOutput = Get(t, "cleanOutput", FALSE)
                /\ r.conditions = NameValuesOf(Get(t, "conditions", <<>>))
                /\ r.variables = NameValuesOf(Get(t, "variables", <<>>))
                /\ r.settings = NameValuesOf(Get(t, "settings", <<>>))

\* C1: round trip. Whenever a configuration accepted by validate_config has been
\* serialized by generate_job_xml and read back by extract_job_info, the groups,
\* their documents, the targets and the targets' conditions, variables and
\* settings read are those of the configuration, in the same order.
C1_RoundTrip ==
    (cmd = "roundtrip" /\ pc = "read") =>
        (SameGroups(job_info, config) /\ SameTargets(job_info, config))

\* a string with a character that is not white space
NonBlank(s) == \E i \in 1..Len(s) : s[i] \notin Whitespace

HasNonBlank(d, k) == k \in DOMAIN d /\ NonBlank(d[k])

\* what the contract asks of a configuration
ConfigComplete(c) ==
    /\ HasNonBlank(c, "name")
    /\ HasNonBlank(c, "stationery")
    /\ "targets" \in DOMAIN c /\ Len(c.targets) >= 1
    /\ \A i \in 1..Len(c.targets) :
        HasNonBlank(c.targets[i], "name") /\ HasNonBlank(c.targets[i], "format")
    /\ "groups" \in DOMAIN c =>
        \A i \in 1..Len(c.groups) : HasNonBlank(c.groups[i], "name")

NoTargets(c) == "targets" \notin DOMAIN c \/ c.targets = <<>>

Reported(msg) == \E i \in 1..Len(errors) : errors[i] = msg

\* C3: validate_config returns no error exactly for the configurations with a
\* non-blank name and stationery path, at least one target, a non-blank name and
\* format in every target and a non-blank name in every group; an empty or
\* missing target list is returned as the error "At least one target is required".
C3_ValidateConfig ==
    (cmd = "roundtrip" /\ pc # "start") =>
        /\ (errors = <<>>) <=> ConfigComplete(config)
        /\ NoTargets(config) => Reported(<<"At least one target is required">>)

C3_Witness ==
    /\ cmd = "roundtrip" /\ pc = "rejected"
    /\ "targets" \notin DOMAIN config
    /\ errors = << <<"At least one target is required">> >>

Called(f) == \E i \in 1..Len(calls) : calls[i] = f

\* every message of the list msgs was logged
AllLogged(msgs) == \A i \in 1..Len(msgs) : \E j \in 1..Len(log) : log[j] = msgs[i]

\* C2: a configuration with a violation makes create-job report every violation
\* and exit with code 3, generate_job_xml is not called on it and no file is
\* written; a run that has written a file has called validate_config first.
C2_ValidatedBeforeWrite ==
    cmd = "create-job" =>
        /\ (config # NoRecord /\ validate_config(config) # <<>>) =>
            /\ ~Called("generate_job_xml")
            /\ fs = fs_before
            /\ pc = "exit" =>
                exit_code = EXIT_VALIDATION_ERROR /\ AllLogged(validate_config(config))
        /\ fs # fs_before => (calls # <<>> /\ calls[1] = "validate_config")

\* the path p lies below the directory base
Below(base, p) ==
    Len(p) > Len(base) /\ \A i \in 1..Len(base) : p[i] = base[i]

\* the files that were created or changed since the command started
Touched == {p \in DOMAIN fs : p \notin DOMAIN fs_before \/ fs[p] # fs_before[p]}

\* C4: create-job writes only below the current working directory; for an output
\* path that resolves outside it the command fails with the path-traversal error
\* and changes no file.
C4_NoWriteOutsideBase ==
    cmd = "create-job" =>
        /\ \A p \in Touched : Below(Cwd, p)
        /\ (output_path # EmptyStr /\ ~Below(Cwd, Resolve(Cwd, output_path))) =>
            /\ fs = fs_before
            /\ pc = "exit" =>
                /\ exit_code = EXIT_VALIDATION_ERROR
                /\ log # <<>>
                /\ log[Len(log)] = <<"Path traversal attempt detected: ", output_path>>

\* C5: at every step at which the process can be interrupted the destination is
\* absent as before, or holds its prior content, or holds the complete new
\* content, and at most one temporary file exists.
C5_AtomicWrite ==
    (cmd = "create-job" /\ output_path # EmptyStr) =>
        LET dest == Resolve(Cwd, output_path)
        IN  /\ IF dest \in DOMAIN fs
                 THEN \/ fs[dest] = content
                      \/ dest \in DOMAIN fs_before /\ fs[dest] = fs_before[dest]
                 ELSE dest \notin DOMAIN fs_before
            /\ Cardinality(DOMAIN fs \ (DOMAIN fs_before \cup {dest})) <= 1

\* the job file existed and parsed
Parsed == cmd = "validate-job" /\ job_root # NoRecord

\* every check that has run has passed = true
AllResultsPassed == \A i \in DOMAIN results : results[i].passed

\* C6: for a job file that exists and parses, validate-job exits with code 0
\* exactly when every check that was run has passed = true and with code 3
\* otherwise, whatever the warnings; no failure is raised instead of reported
C6_ExitCode ==
    (Parsed /\ pc = "exit") =>
        /\ exit_code \in {EXIT_SUCCESS, EXIT_VALIDATION_FAILED}
        /\ exit_code = EXIT_SUCCESS <=> AllResultsPassed

\* the names of the checks the flags enable, in the fixed order
ExpectedChecks ==
    <<"Job file exists", "XML well-formed", "Job element valid", "Stationery reference",
      "Source documents">>
    \o (IF args.check_documents THEN <<"Document paths">> ELSE <<>>)
    \o <<"Build targets">>
    \o (IF args.check_stationery THEN <<"Format names">> ELSE <<>>)

\* the names of the checks that have run, in the order they ran
ResultNames == [i \in DOMAIN results |-> results[i].name]

\* the job file exists with the right extension and is not well-formed
Unparseable ==
    /\ cmd = "validate-job"
    /\ args.job_file.exists
    /\ Lower(args.job_file.suffix) = <<".", "w", "a", "j">>
    /\ args.job_file.content.kind # "xml"

\* C7: once the job file has parsed, every enabled check runs exactly once in
\* the fixed order whether or not earlier checks failed, so the run ends with
\* one result per enabled check; only an unparseable file ends the run early,
\* and then exactly one of the reported results is failing
C7_ChecksInOrder ==
    /\ (Parsed /\ pc = "exit") => ResultNames = ExpectedChecks
    /\ (Unparseable /\ pc = "exit") =>
            /\ log = results
            /\ Cardinality({i \in DOMAIN log : ~log[i].passed}) = 1

\* the stationery of the job: what is at its stationery path
TheStationery == PathContent(job_dir, StationeryPath(job_root))

\* the Name attributes of the formats of the capability descriptor
DeclaredNames ==
    LET format_elements == FormatElements(TheStationery.root)
    IN  {Attr(format_elements[i], "Name", EmptyStr) :
            i \in {j \in 1..Len(format_elements) :
                      \E k \in 1..Len(format_elements[j].attrs) :
                          format_elements[j].attrs[k][1] = "Name"}}

\* the format values of the targets of the job, a missing one being empty
TargetFormats ==
    IF HasChild(job_root, "Targets")
      THEN LET target_list == FindAll(Find(job_root, "Targets"), "Target")
           IN  [i \in 1..Len(target_list) |-> Attr(target_list[i], "format", EmptyStr)]
      ELSE <<>>

\* the format values that are no Name of the capability descriptor, in order
Mismatches == SelectSeq(TargetFormats, LAMBDA f : f \notin DeclaredNames)

\* the warning lists all the valid names
ListsAllNames(warning) ==
    \E order \in Orders(DeclaredNames) : warning = <<"Available: ">> \o join(<<", ">>, order)

\* C8: with a loadable capability descriptor the format-name check fails when
\* no target's format is the Name of a format and passes when at least one is;
\* every mismatching target gives a warning naming its format value, and with
\* a mismatch one warning lists all the valid names
C8_FormatNames ==
    (cmd = "validate_target_formats" /\ pc = "done" /\ TheStationery.kind = "xml") =>
        LET result == results[1]
            named == SelectSeq(result.warnings,
                               LAMBDA w : w[1] = "Format not in Stationery: ")
            listing == SelectSeq(result.warnings, LAMBDA w : ListsAllNames(w))
        IN  /\ result.passed <=> Len(Mismatches) < Len(TargetFormats)
            /\ named = [i \in 1..Len(Mismatches) |->
                            <<"Format not in Stationery: ">> \o Mismatches[i]]
            /\ Mismatches # <<>> => Len(listing) = 1

\* the paths of the documents of the job that have one, in document order
ReferencedPaths ==
    IF HasChild(job_root, "Files")
      THEN LET groups == FindAll(Find(job_root, "Files"), "Group")
               docs == Concat([i \in 1..Len(groups) |-> FindAll(groups[i], "Document")], 1)
           IN  SelectSeq([i \in 1..Len(docs) |-> Attr(docs[i], "path", EmptyStr)],
                         LAMBDA doc_path : doc_path # EmptyStr)
      ELSE <<>>

\* the referenced documents that exist in the job directory
FoundPaths == SelectSeq(ReferencedPaths, LAMBDA doc_path : doc_path \in DOMAIN job_dir)

\* the referenced documents that do not
MissingPaths == SelectSeq(ReferencedPaths, LAMBDA doc_path : doc_path \notin DOMAIN job_dir)

\* the document-existence check has returned its result
DocsChecked == cmd = "validate_documents_exist" /\ pc = "done"

HasResult(name) == cmd = "validate-job" /\ \E i \in DOMAIN results : results[i].name = name

\* the result of the run with this name
ResultOf(name) == results[CHOOSE i \in DOMAIN results : results[i].name = name]

\* the Target elements of the job
TargetsOf(r) == IF HasChild(r, "Targets") THEN FindAll(Find(r, "Targets"), "Target") ELSE <<>>

\* the (target, attribute) pairs of the job whose attribute is missing or empty
MissingTargetAttrs(r) ==
    {<<i, a>> \in (1..Len(TargetsOf(r))) \X {"name", "format"} :
        Attr(TargetsOf(r)[i], a, EmptyStr) = EmptyStr}

\* C11: the targets check fails exactly when the job has no Target (no Targets
\* container or an empty one); a missing or empty name or format of a target
\* adds one warning each and never fails the check; a job with no Target never
\* passes validation
C11_TargetsCheck ==
    /\ HasResult("Build targets") =>
            /\ ~ResultOf("Build targets").passed <=> TargetsOf(job_root) = <<>>
            /\ TargetsOf(job_root) # <<>> =>
                    Len(ResultOf("Build targets").warnings)
                        = Cardinality(MissingTargetAttrs(job_root))
    /\ (Parsed /\ pc = "exit" /\ TargetsOf(job_root) = <<>>) => exit_code # EXIT_SUCCESS

\* the targets check has passed a job with a target that has neither name nor format
C11_Witness ==
    /\ HasResult("Build targets")
    /\ ResultOf("Build targets").passed
    /\ \E i \in 1..Len(TargetsOf(job_root)) :
            {<<i, "name">>, <<i, "format">>} \subseteq MissingTargetAttrs(job_root)
    /\ pc = "exit"

\* the element has an attribute of this name
HasAttr(e, name) == \E i \in 1..Len(e.attrs) : e.attrs[i][1] = name

ProjectPath(r) ==
    IF HasChild(r, "Project") THEN Attr(Find(r, "Project"), "path", EmptyStr) ELSE EmptyStr

GroupsOf(r) == IF HasChild(r, "Files") THEN FindAll(Find(r, "Files"), "Group") ELSE <<>>

\* the groups of the job without a name
UnnamedGroups(r) ==
    {i \in 1..Len(GroupsOf(r)) : Attr(GroupsOf(r)[i], "name", EmptyStr) = EmptyStr}

\* the documents of the job without a path, as (group, document) positions
PathlessDocuments(r) ==
    {<<i, j>> \in (1..Len(GroupsOf(r))) \X (1..MaxDocuments) :
        /\ j <= Len(FindAll(GroupsOf(r)[i], "Document"))
        /\ Attr(FindAll(GroupsOf(r)[i], "Document")[j], "path", EmptyStr) = EmptyStr}

\* C14: the document-groups check always passes: a job with no Files element
\* or with no group gives the message "(empty)" and one warning, and a group
\* without name or a document without path only adds a warning
C14_FilesCheck ==
    HasResult("Source documents") =>
        LET result == ResultOf("Source documents")
        IN  /\ result.passed
            /\ GroupsOf(job_root) = <<>> =>
                    result.message = <<"(empty)">> /\ Len(result.warnings) = 1
            /\ GroupsOf(job_root) # <<>> =>
                    Len(result.warnings) = Cardinality(UnnamedGroups(job_root))
                                            + Cardinality(PathlessDocuments(job_root))

\* the check has passed a job without Files element as "(empty)" with a warning
C14_Witness ==
    /\ HasResult("Source documents")
    /\ ~HasChild(job_root, "Files")
    /\ ResultOf("Source documents").passed
    /\ ResultOf("Source documents").message = <<"(empty)">>
    /\ ResultOf("Source documents").warnings # <<>>

\* a boolean attribute read by exact equality to "True", with its default when absent
ReadsTrue(e, name, default) ==
    IF HasAttr(e, name) THEN Attr(e, name, EmptyStr) = <<"True">> ELSE default

\* the targets of the job with build read as true
EnabledTargets(r) ==
    {i \in 1..Len(TargetsOf(r)) : ReadsTrue(TargetsOf(r)[i], "build", TRUE)}

\* the build and cleanOutput of every target of the list are read by the rule
FlagsByRule(target_dicts) ==
    /\ Len(target_dicts) = Len(TargetsOf(job_root))
    /\ \A i \in 1..Len(target_dicts) :
        /\ target_dicts[i].build = ReadsTrue(TargetsOf(job_root)[i], "build", TRUE)
        /\ target_dicts[i].cleanOutput = ReadsTrue(TargetsOf(job_root)[i], "cleanOutput", FALSE)

\* C15: build and cleanOutput of a target are read by exact, case-sensitive
\* equality to "True": absent gives the default (build true, cleanOutput
\* false), any other present value gives false; parse-job, list-job-targets
\* and the enabled count of the validator follow the same rule
C15_BooleanAttributes ==
    cmd = "targets" =>
        /\ job_info # NoRecord => FlagsByRule(job_info.targets)
        /\ stdout # <<>> => FlagsByRule(stdout[1])
        /\ (results # <<>> /\ TargetsOf(job_root) # <<>>) =>
                results[1].message =
                    <<ToString(Len(TargetsOf(job_root))), " targets (",
                      ToString(Cardinality(EnabledTargets(job_root))), " enabled)">>

\* the three readers have read a target with build="true" and cleanOutput="TRUE"
C15_Witness ==
    /\ cmd = "targets"
    /\ job_info # NoRecord /\ stdout # <<>> /\ results # <<>>
    /\ \E i \in 1..Len(TargetsOf(job_root)) :
        /\ Attr(TargetsOf(job_root)[i], "build", EmptyStr) = <<"true">>
        /\ Attr(TargetsOf(job_root)[i], "cleanOutput", EmptyStr) = <<"TRUE">>
        /\ ~job_info.targets[i].build /\ ~stdout[1][i].cleanOutput

\* parse-job has read a job whose stationery reference is not on disk
ReferenceNotOnDisk ==
    /\ cmd = "parse-job" /\ job_root # NoRecord
    /\ ProjectPath(job_root) # EmptyStr
    /\ ProjectPath(job_root) \notin ExistingPaths(job_dir)

\* C16: in parse-job a stationery reference that is not on disk is no
\* failure: the command exits 0 and prints the raw reference with
\* stationeryExists = false; stationeryExists is true exactly when the
\* reference is non-empty and exists beside the job file
C16_StationeryExists ==
    (cmd = "parse-job" /\ pc = "exit" /\ job_root # NoRecord) =>
        /\ exit_code = EXIT_SUCCESS
        /\ job_info.stationery = ProjectPath(job_root)
        /\ job_info.stationeryExists <=>
                (ProjectPath(job_root) # EmptyStr
                    /\ ProjectPath(job_root) \in ExistingPaths(job_dir))
        /\ ReferenceNotOnDisk => ~job_info.stationeryExists

\* the declarations an XML writer of the serializer produces
Declarations == {XmlDeclaration, "<?xml version=\"1.0\" ?>"}

\* the places of a text that hold an XML declaration
DeclarationsIn(text) == {i \in 1..Len(text) : text[i] \in Declarations}

JobCommands == {"parse-job", "validate-job", "list-job-targets"}

\* the command's input file is missing or has another extension than its kind
InputMissingOrMisnamed ==
    CASE cmd \in JobCommands ->
            \/ ~args.job_file.exists
            \/ Lower(args.job_file.suffix) # <<".", "w", "a", "j">>
      [] cmd = "parse-stationery" ->
            \/ ~args.stationery_file.exists
            \/ Lower(args.stationery_file.suffix) # <<".", "w", "x", "s", "p">>
      [] cmd = "create-job" -> args.mode = "config" /\ args.config.status = "missing"
      [] OTHER -> FALSE

\* the command's input file exists under the right extension and is not
\* well-formed
InputUnparseable ==
    CASE cmd \in JobCommands ->
            ~InputMissingOrMisnamed /\ args.job_file.content.kind = "malformed"
      [] cmd = "parse-stationery" ->
            ~InputMissingOrMisnamed /\ args.stationery_file.content.kind = "malformed"
      [] cmd = "create-job" -> args.mode = "config" /\ args.config.status = "invalid json"
      [] OTHER -> FALSE

\* C18: in every command of the family (parse-job, validate-job,
\* list-job-targets, parse-stationery, create-job) an input file that is missing
\* or has the wrong extension gives exit code 1, and one that exists with the
\* right extension but cannot be parsed gives exit code 3
C18_ExitCodes ==
    (cmd \in JobCommands \cup {"parse-stationery", "create-job"} /\ pc = "exit") =>
        /\ InputMissingOrMisnamed => exit_code = 1
        /\ InputUnparseable => exit_code = 3

\* the elements of a document with a tag, the root included, in document order
ElementsOf(root, tag) == SelectSeq(Iter(root), LAMBDA e : e.tag = tag)

\* the result of a two-phase lookup: the namespaced elements of that tag when
\* the document has one, else the unqualified ones
TwoPhase(root, tag) ==
    IF ElementsOf(root, Ns(tag)) # <<>> THEN ElementsOf(root, Ns(tag)) ELSE ElementsOf(root, tag)

\* a reader of the Stationery is past its lookups
StationeryRead ==
    /\ cmd \in {"parse-stationery", "parse_stationery"}
    /\ job_root # NoRecord
    /\ pc \in {"output", "exit", "returned"}

\* the formats the reader found
FormatsFound == IF job_info = NoRecord THEN <<>> ELSE job_info.formats

\* the file mappings the reader found
MappingsFound ==
    IF cmd = "parse_stationery" THEN job_info.fileMappings ELSE stdout[1].fileMappings

\* C19: each element lookup of the Stationery reader is two-phase: the formats
\* and the file mappings read are exactly the namespaced elements of the tag
\* when the document has at least one, and exactly the unqualified ones
\* otherwise, never elements of both kinds
C19_TwoPhaseLookup ==
    StationeryRead =>
        LET formats == TwoPhase(job_root, "Format")
            mappings == TwoPhase(job_root, "FileMapping")
        IN  /\ Len(FormatsFound) = Len(formats)
            /\ \A i \in DOMAIN formats :
                /\ FormatsFound[i].targetId = Attr(formats[i], "TargetID", EmptyStr)
                /\ "Name" \in {formats[i].attrs[k][1] : k \in DOMAIN formats[i].attrs}
                        => FormatsFound[i].name = Attr(formats[i], "Name", EmptyStr)
            /\ (cmd = "parse_stationery" \/ stdout # <<>>) =>
                    /\ Len(MappingsFound) = Len(mappings)
                    /\ \A i \in DOMAIN mappings :
                            MappingsFound[i].extension
                                = Attr(mappings[i], "extension", EmptyStr)

\* the configuration groups the reader parsed, in the order parsed
ConfigurationGroups == find_elements_any_ns(job_root, "FormatConfiguration")

\* the configuration groups with a TargetID, in the order parsed
GroupsWith(target_id) ==
    SelectSeq(ConfigurationGroups, LAMBDA g : Attr(g, "TargetID", EmptyStr) = target_id)

\* the settings of the last of some groups, the empty list when there is none
LastSettings(groups) == IF groups = <<>> THEN <<>> ELSE ConfigSettings(groups[Len(groups)])

\* a reader of the Stationery has built the formats
FormatsBuilt == StationeryRead /\ job_info # NoRecord

\* C20 as stated: each format's settings list is the settings of the last-parsed
\* configuration group whose TargetID equals the format's targetId, and the
\* empty list when no group carries that targetId
C20_SettingsJoin ==
    FormatsBuilt =>
        \A i \in DOMAIN job_info.formats :
            job_info.formats[i].settings = LastSettings(GroupsWith(job_info.formats[i].targetId))

\* C20, amended: each format's settings list is the settings of the last-parsed
\* configuration group whose TargetID is not empty and equals the format's
\* targetId, a later group replacing an earlier one entirely; it is the empty
\* list, and the reader does not fail, when there is no such group, which is
\* always so for a format whose targetId is empty
C20_SettingsJoinNonEmpty ==
    FormatsBuilt =>
        /\ exit_code \in {Running, EXIT_SUCCESS}
        /\ \A i \in DOMAIN job_info.formats :
            LET target_id == job_info.formats[i].targetId
            IN  job_info.formats[i].settings =
                    IF target_id = EmptyStr THEN <<>> ELSE LastSettings(GroupsWith(target_id))

\* a format was read whose TargetID two groups carry with different settings,
\* next to a format whose TargetID no group carries
C20_Witness ==
    /\ FormatsBuilt
    /\ \E i, j \in DOMAIN job_info.formats :
        LET groups == GroupsWith(job_info.formats[i].targetId)
        IN  /\ job_info.formats[i].targetId # EmptyStr
            /\ Len(groups) = 2
            /\ ConfigSettings(groups[1]) # ConfigSettings(groups[2])
            /\ ConfigSettings(groups[1]) # <<>>
            /\ job_info.formats[i].settings = ConfigSettings(groups[2])
            /\ job_info.formats[j].targetId # EmptyStr
            /\ GroupsWith(job_info.formats[j].targetId) = <<>>
            /\ job_info.formats[j].settings = <<>>

\* the version a reader is to report for a root: RuntimeVersion when
\* FormatVersion is absent, empty or "{Current}", FormatVersion otherwise
SentinelVersion(root) ==
    IF ~HasAttr(root, "FormatVersion")
         \/ Attr(root, "FormatVersion", EmptyStr) = EmptyStr
         \/ Attr(root, "FormatVersion", EmptyStr) = <<"{Current}">>
      THEN Attr(root, "RuntimeVersion", EmptyStr)
      ELSE Attr(root, "FormatVersion", EmptyStr)

\* C21: parse-stationery, parse-targets --version and the parse_stationery of
\* create-job all report RuntimeVersion when FormatVersion is absent, empty or
\* "{Current}", and FormatVersion otherwise.
C21_VersionSentinel ==
    /\ (cmd = "parse-stationery" /\ pc = "exit" /\ exit_code = EXIT_SUCCESS)
            => stdout[1].runtimeVersion = SentinelVersion(job_root)
    /\ (cmd = "parse-targets" /\ pc = "exit" /\ job_root # NoRecord /\ args.show_version
            /\ SentinelVersion(job_root) # EmptyStr)
            => stdout = <<SentinelVersion(job_root)>>
    /\ (cmd \in {"parse_stationery", "create-job --template"} /\ job_root # NoRecord)
            => job_info.runtimeVersion = SentinelVersion(job_root)

\* a root in whose tree no element is a Format, namespaced or not
NoFormatElements(root) ==
    ElementsOf(root, "Format") = <<>> /\ ElementsOf(root, Ns("Format")) = <<>>

\* C22: when the file parsed has no Format element, parse-stationery,
\* parse-targets (listing targets) and create-job --template end with exit
\* code 3 and print nothing.
C22_NoFormatsExit ==
    (/\ cmd \in {"parse-stationery", "parse-targets", "create-job --template"}
     /\ cmd = "parse-targets" => ~args.show_version
     /\ pc = "exit" /\ job_root # NoRecord /\ NoFormatElements(job_root))
        => exit_code = EXIT_NO_FORMATS /\ stdout = <<>>

\* the Target elements of the document generated, as a reader sees them
GeneratedTargets == FindAll(Find(ParseXml(xml_content.doc), "Targets"), "Target")

\* the block tags, in the fixed order, whose list is non-empty in the target
BlocksDue(t) ==
    SelectSeq(<<[tag |-> "Conditions", list |-> Get(t, "conditions", <<>>)],
                [tag |-> "Variables", list |-> Get(t, "variables", <<>>)],
                [tag |-> "Settings", list |-> Get(t, "settings", <<>>)]>>,
              LAMBDA b : b.list # <<>>)

\* C23: in the generated document every target has build and cleanOutput equal
\* to "True" or "False", and its child blocks are exactly Conditions, Variables
\* and Settings for the non-empty lists of the configuration, in that order.
C23_FlagsAndBlocks ==
    (cmd = "roundtrip" /\ xml_content # NoRecord) =>
        /\ Len(GeneratedTargets) = Len(config.targets)
        /\ \A i \in DOMAIN GeneratedTargets :
              LET e == GeneratedTargets[i]
              IN  /\ Attr(e, "build", EmptyStr) \in {<<"True">>, <<"False">>}
                  /\ Attr(e, "cleanOutput", EmptyStr) \in {<<"True">>, <<"False">>}
                  /\ [k \in DOMAIN e.children |-> e.children[k].tag]
                        = [k \in DOMAIN BlocksDue(config.targets[i]) |->
                              BlocksDue(config.targets[i])[k].tag]

\* a document generated for a target with the three blocks and one with none,
\* and for flags of both values
C23_Witness ==
    /\ cmd = "roundtrip" /\ xml_content # NoRecord
    /\ \E i \in DOMAIN GeneratedTargets : Len(GeneratedTargets[i].children) = 3
    /\ \E i \in DOMAIN GeneratedTargets :
            /\ GeneratedTargets[i].children = <<>>
            /\ Attr(GeneratedTargets[i], "build", EmptyStr) = <<"True">>

\* C24: declining the confirmation in config mode, or choosing 'c' in
\* interactive mode, ends create-job with exit code 4, and the files on disk
\* are those before the run: nothing was written and no temporary file made.
C24_CancelLeavesFiles ==
    [][(cmd = "create-job" /\ pc \in {"confirm", "choice"} /\ pc' = "exit")
          => /\ exit_code' = EXIT_CANCELLED
             /\ fs' = fs_before /\ temp_path' = <<>>
             /\ \A i \in DOMAIN calls' : calls'[i] \notin {"write_file_atomic", "open"}]_vars

\* a run cancelled at the interactive prompt, with an output file of an
\* earlier run on disk
C24_Witness ==
    /\ cmd = "create-job" /\ pc = "exit" /\ exit_code = EXIT_CANCELLED
    /\ args.mode = "interactive" /\ fs # <<>>

\* write_file_atomic has failed after mkstemp: its except clause has run
WriteFailed ==
    /\ cmd = "create-job" /\ pc = "exit" /\ calls # <<>>
    /\ calls[Len(calls)] \in {"os.unlink", "os.unlink: OSError"}

\* the destination is absent as before the run or holds its prior content
DestinationAsBefore ==
    LET dest == Resolve(Cwd, output_path)
    IN  IF dest \in DOMAIN fs_before
          THEN dest \in DOMAIN fs /\ fs[dest] = fs_before[dest]
          ELSE dest \notin DOMAIN fs

\* C25 as stated: when write_file_atomic fails at the write, the flush or the
\* rename, the error is propagated, the temporary file is gone and the
\* destination is as before.
C25_TempRemoved ==
    WriteFailed =>
        /\ exit_code = EXIT_TRACEBACK
        /\ temp_path \notin DOMAIN fs
        /\ DestinationAsBefore

\* C25: when write_file_atomic fails at the write, the flush or the rename, the
\* error is propagated, the destination is as before, and the temporary file
\* is gone unless its removal failed too; no other file is left.
C25_TempRemovedUnlessUnlinkFails ==
    WriteFailed =>
        /\ exit_code = EXIT_TRACEBACK
        /\ DestinationAsBefore
        /\ temp_path \in DOMAIN fs <=> calls[Len(calls)] = "os.unlink: OSError"
        /\ Touched \subseteq {temp_path}

\* a failed write over an output file of an earlier run, the temporary file removed
C25_Witness ==
    /\ WriteFailed /\ calls[Len(calls)] = "os.unlink"
    /\ Resolve(Cwd, output_path) \in DOMAIN fs_before
    /\ fs = fs_before

\* C26: when interactive_collect_targets has returned, the list returned has at
\* least one target and the format of every target is the name of a format of
\* the parsed Stationery; a refused input (blank with no target yet, a number
\* out of range, an unknown name) neither ends the loop nor adds a target.
C26_ReturnsWithTarget ==
    cmd = "interactive_collect_targets" =>
        /\ pc = "returned" => results # <<>>
        /\ \A i \in DOMAIN results :
              \E k \in DOMAIN job_info.formats :
                  results[i].format = job_info.formats[k].name
        /\ job_info.formats = <<>> => pc = "prompt" /\ results = <<>>

\* the loop has returned two targets after refusing two inputs
C26_Witness ==
    /\ cmd = "interactive_collect_targets" /\ pc = "returned"
    /\ Len(results) = 2 /\ Len(log) = 2
    /\ results[1].format # results[2].format

\* C27: the configuration parse-job --config prints for a job file, serialized
\* by generate_job_xml and read back, gives the same name, stationery, groups
\* with their documents and targets with their conditions, variables and
\* settings as the job file itself.
C27_ReadSerializeRead ==
    (cmd = "read-serialize-read" /\ pc = "read back") => stdout[1] = config

\* the targets of the job whose format is missing or empty
FormatlessTargets == SelectSeq(TargetFormats, LAMBDA f : f = EmptyStr)

\* C28: with a loadable capability descriptor, every target whose format is
\* missing or empty is counted invalid by the format-name check: each gives the
\* warning "Format not in Stationery: " and none counts towards passing.
C28_FormatlessInvalid ==
    (cmd = "validate_target_formats" /\ pc = "done" /\ TheStationery.kind = "xml"
        /\ HasChild(job_root, "Targets")) =>
        LET result == results[1]
            named == SelectSeq(result.warnings,
                               LAMBDA w : w = <<"Format not in Stationery: ">>)
        IN  /\ Len(named) = Len(FormatlessTargets)
            /\ Len(FormatlessTargets) = Len(TargetFormats) => ~result.passed

\* C29: with --check-stationery, when what the job refers to as its Stationery
\* does not exist or does not parse, the format-name check passes with the
\* message "(skipped)" and exactly one warning, and the verdict of the run is
\* that of the other checks.
C29_SkippedWhenUnloadable ==
    (HasResult("Format names") /\ TheStationery.kind # "xml") =>
        LET result == ResultOf("Format names")
        IN  /\ args.check_stationery
            /\ result.passed
            /\ result.message = <<"(skipped)">>
            /\ Len(result.warnings) = 1
            /\ all_passed <=> \A i \in DOMAIN results :
                                 results[i].name # "Format names" => results[i].passed

\* a run that has passed although its Stationery file exists and is malformed
C29_Witness ==
    /\ HasResult("Format names") /\ TheStationery.kind = "malformed"
    /\ pc = "exit" /\ exit_code = EXIT_SUCCESS
    /\ ResultOf("Format names").warnings = << <<"Failed to parse Stationery: ", "e">> >>

\* the pieces of these names and of the results that are made of word
\* characters only
WordChars == {"a", "0", "_", "job"}

\* C30: the result of sanitize_filename is not empty, holds no '/' and no '\',
\* holds only word characters, '-' and '.', does not start with '.' or '-',
\* and is returned unchanged when sanitize_filename is applied to it.
C30_SanitizedName ==
    (cmd = "sanitize_filename" /\ stdout # <<>>) =>
        LET name == stdout[1]
        IN  /\ name # <<>>
            /\ \A i \in DOMAIN name :
                    name[i] \notin {"/", "\\"} /\ name[i] \in WordChars \cup {"-", "."}
            /\ name[1] \notin {".", "-"}
            /\ name \notin {<<".">>, <<".", ".">>}
            /\ \A k \in DOMAIN stdout : stdout[k] = name

\* "../" sanitized to "_", twice
C30_Witness ==
    /\ cmd = "sanitize_filename" /\ args.name = <<".", ".", "/">>
    /\ stdout = << <<"_">>, <<"_">> >>

====
